---- MODULE Spec2Model ----
(***************************************************************************)
(* State-machine model of the parameter-optimization engine of the         *)
(* braingraph pipeline:                                                    *)
(*   - run_wave_pipeline (scripts/cross_validation_bootstrap_optimizer.py) *)
(*   - BayesianOptimizer (scripts/bayesian_optimizer.py)                   *)
(*   - the three places that wait for an external child process            *)
(*   - aggregate_top_candidates (scripts/[utils/]aggregate_wave_candidates)*)
(* Scores are fixed-point numbers in units of 1e-5, so that the selection  *)
(* epsilon 1e-4 is the integer 10.                                         *)
(***************************************************************************)
EXTENDS Integers, Sequences, FiniteSets, TLC

VARIABLES
    \* ---- run_wave_pipeline ----
    run,             \* 1: the wave run with max_parallel = 1, 2: re-run in parallel
    max_parallel,    \* argument max_parallel of run_wave_pipeline
    outcome,         \* what the external steps do for combination i (same in both runs)
    rc3,             \* exit code of optimal_selection.py (Step 03) for this wave
    wpc,             \* position of run_wave_pipeline: sweep, select, step03, done, raised
    pos,             \* sequential loop: index of the next task
    fut,             \* parallel loop: state of the future of each task
    optimized_csvs,  \* list of (cfg, score, tc) of the successful combinations
    best,            \* selected combination (0: None)
    wave_result,     \* "none" while running, then "True", "False" or "raised"
    seq_ref,         \* <<wave_result, best>> of the run with max_parallel = 1
    prune_nonbest,   \* argument prune_nonbest of run_wave_pipeline
    combo_dirs       \* per task: its directory combos/sweep_NNNN is absent, present or deleted

waveVars == <<run, max_parallel, outcome, rc3, wpc, pos, fut, optimized_csvs,
              best, wave_result, seq_ref, prune_nonbest, combo_dirs>>

VARIABLES
    \* ---- BayesianOptimizer ----
    max_workers,        \* self.max_workers
    iteration_results,  \* self.iteration_results
    best_score,         \* self.best_score
    best_params,        \* self.best_params (0: None)
    progress,           \* bayesian_optimization_progress.json: <<>> or <<record>>
    lock,               \* self._lock: the set of threads holding it
    mpc,                \* position of optimize(): loop, eval, collect, done
    tpc,                \* position of each thread inside _evaluate_params
    task,               \* the evaluation each thread is doing
    queue,              \* points submitted to the executor and not yet started
    next_iteration,     \* next_iteration of the parallel branch
    n_evals,            \* evaluations started in this process
    asked,              \* calls of opt.ask()
    told,               \* calls of opt.tell()
    resumed_from,       \* completed_iterations found on disk at a restart (-1: none)
    tellers,            \* the threads inside opt.tell()
    tell_log            \* the calls of opt.tell() made: [iteration, y]

bayesVars == <<max_workers, iteration_results, best_score, best_params, progress,
               lock, mpc, tpc, task, queue, next_iteration, n_evals, asked, told,
               resumed_from, tellers, tell_log>>

VARIABLES
    \* ---- one evaluator invocation waiting for its child process ----
    ev_kind,     \* which evaluator: "bayes", "wave" or "extraction"
    epc,         \* the caller: call, waiting, returned
    child,       \* the child process: none, running, exited, killed
    elapsed,     \* minutes since the child was started
    ev_status    \* what the caller got: none, ok, failed, timeout

evalVars == <<ev_kind, epc, child, elapsed, ev_status>>

VARIABLES
    \* ---- aggregate_top_candidates ----
    version,      \* "scripts" or "utils": which of the two files runs
    wave_files,   \* per wave: its tract_count and its optimal_combinations.json
    apc,          \* load, done
    widx,         \* index of the next wave of "for wave in wave_dirs"
    scores,       \* dict scores, in insertion order: <<[key, vals], ...>>
    details,      \* dict details, in insertion order: <<[key, recs], ...>>
    ranked,       \* the list written to all_candidates_ranked.json
    agg_rc        \* what main returns to sys.exit

aggVars == <<version, wave_files, apc, widx, scores, details, ranked, agg_rc>>


VARIABLES
    \* ---- opticonn review (auto-select) ----
    files,           \* per optimal_combinations.json found: its candidate list
    all_candidates,  \* the rows of df: [id, score, wave]
    rpc,             \* load, select, done
    best_dict,       \* the row written to selected_candidate.json
    warned,          \* the "No candidates appear in all waves" warning was printed
    review_rc        \* return code of the review command

reviewVars == <<files, all_candidates, rpc, best_dict, warned, review_rc>>


VARIABLES
    \* ---- pareto_front ----
    df,          \* the candidate table, one record per row
    front,       \* the rows pareto_front returns, in table order
    front_ref,   \* the front of the table before its rows were reordered
    ppc,         \* ready, done
    reordered    \* the rows have been permuted

paretoVars == <<df, front, front_ref, ppc, reordered>>


VARIABLES
    \* ---- parameter sampling (sweep_utils) ----
    sweep_parameters,  \* config["sweep_parameters"]: per key, its declaration
    method,            \* sampling.method: grid, random, lhs
    n_samples,         \* sampling.n_samples
    pydoe2,            \* pyDOE2 can be imported
    rng,               \* state of Python's global random generator
    np_rng,            \* state of numpy's global random generator
    combos,            \* the combinations returned
    combos_ref,        \* the combinations the first of two equal calls returned
    sweep_error,       \* the exception the sampling raised, or "none"
    spc,               \* ready, done
    calls              \* calls made with these arguments

sweepVars == <<sweep_parameters, method, n_samples, pydoe2, rng, np_rng, combos,
               combos_ref, sweep_error, spc, calls>>


VARIABLES
    \* ---- main of the cross-validation optimizer ----
    wave_no,        \* the wave being run: 1 or 2
    pool_empty,     \* per wave: no candidate file was found for selection
    wave_success,   \* wave1_success, wave2_success as far as known
    ok_counts,      \* per finished wave: the evaluations recorded with status ok
    exit_status,    \* exit status of the process
    aggregated,     \* aggregate_wave_candidates.py was run
    main_pc         \* waves, exited

mainVars == <<wave_no, pool_empty, wave_success, ok_counts, exit_status, aggregated,
              main_pc>>

VARIABLES
    \* ---- opticonn apply ----
    cfg_json,         \* the list read from --optimal-config
    candidate_index,  \* --candidate-index
    chosen,           \* ranked[idx]
    extraction_cfg,   \* the dict written to extraction_from_selection.json
    apply_error,      \* the exception that left the command, "" if none
    apply_pc          \* start, done

applyVars == <<cfg_json, candidate_index, chosen, extraction_cfg, apply_error, apply_pc>>

VARIABLES
    \* ---- the score read from optimized_metrics.csv ----
    reader,       \* "wave": run_combo, "bayes": _evaluate_params
    has_raw,      \* 'quality_score_raw' in df.columns
    has_norm,     \* 'quality_score' in df.columns
    table,        \* the rows of the csv: <<[raw, norm], ...>>
    qa_score,     \* the score of the evaluation, a fraction (den = 0: nan)
    qa_pc         \* read, done

scoreVars == <<reader, has_raw, has_norm, table, qa_score, qa_pc>>

VARIABLES
    \* ---- _evaluate_params up to the start of the pipeline ----
    concurrent,     \* the evaluations run in pool threads at the same time
    has_tracking,   \* base_config holds a 'tracking_parameters' dict
    params_of,      \* per evaluation: the point it evaluates
    prep_pc,        \* per evaluation: seed, choice, update, dump, done
    global_rng,     \* state of the generator of the module random
    base_tracking,  \* base_config['tracking_parameters'], the one dict object
    own_tracking,   \* per evaluation: the {} config.get() made when the key is missing
    config_files,   \* per iteration: the dumped iteration_NNNN_config.json
    sampled         \* per iteration: the subject _sample_subject_for_iteration returned

prepVars == <<concurrent, has_tracking, params_of, prep_pc, global_rng, base_tracking,
              own_tracking, config_files, sampled>>

VARIABLES
    \* ---- apply_param_choice_to_config ----
    base_config,     \* argument base_config: what each position of the dict holds
    choice,          \* argument choice, in dict order: <<[key, value], ...>>
    mapping,         \* argument mapping: per key a dotted path, <<>> if the key is not in it
    derived_config,  \* the returned dict
    derive_error,    \* the exception raised, "" if none
    derive_pc        \* call, returned

deriveVars == <<base_config, choice, mapping, derived_config, derive_error, derive_pc>>

vars == <<waveVars, bayesVars, evalVars, aggVars, reviewVars, paretoVars, sweepVars, mainVars, applyVars, scoreVars, prepVars, deriveVars>>

(***************************************************************************)
(* Bounds                                                                  *)
(***************************************************************************)
NCombos == 3          \* combinations (tasks) of the wave
MaxParallel == 2      \* max_parallel of the parallel run
NIterations == 3      \* n_iterations of the Bayesian optimizer
MaxWorkers == 2       \* max_workers of the parallel Bayesian run
MaxEvals == 4         \* evaluations one process may start
MaxCands == 2         \* candidates listed in one wave's optimal_combinations.json
MaxOverrun == 2       \* minutes the clock runs past the timeout
MaxRows == 3          \* rows of the candidate table given to pareto_front
MaxVals == 2          \* values a sweep parameter declares
MaxSamples == 2       \* n_samples of random and LHS sampling

(***************************************************************************)
(* run_wave_pipeline: the outcomes of the external steps                   *)
(***************************************************************************)
Eps == 10                     \* eps = 1e-4
SentinelScore == -100000      \* -1.0: score of a failed combination, initial best_score
NoTractCount == -1            \* tract_count when the config holds none
NoneTC == -2                  \* best_tc = None

FailKinds == {"step01_failed", "aggregate_failed", "step02_failed", "score_error"}

\* (score, tract_count) of the successful combinations the model draws from:
\* scores 0.50000, 0.50006, 0.50012 with tract counts 1, 2, 3, and one without
\* a tract count
OkResults == {<<50000, 1>>, <<50006, 2>>, <<50012, 3>>, <<50006, -1>>}

\* successful combinations whose optimized_metrics.csv holds a raw mean of
\* -2.0, no usable score column at all (score -1.0), or a raw mean of 0.5
LowResults == {<<-200000, 1>>, <<SentinelScore, NoTractCount>>, <<50000, 2>>}

Outcomes ==
    [kind : FailKinds, score : {SentinelScore}, tc : {NoTractCount}]
    \cup {[kind |-> "ok", score |-> r[1], tc |-> r[2]] : r \in OkResults}

LowOutcomes ==
    [kind : {"step02_failed", "score_error"}, score : {SentinelScore}, tc : {NoTractCount}]
    \cup {[kind |-> "ok", score |-> r[1], tc |-> r[2]] : r \in LowResults}

Abs(x) == IF x < 0 THEN -x ELSE x

\* run_combo(i, cfg_path, combo_out): the tuple it returns,
\* (cfg_path, opt_csv, score, tract_count, status[, diag]); a path is the
\* index of its combination, Path('') is 0.  The step01 and step02 failures
\* return five fields, the others six.
RunCombo(i) ==
    LET o == outcome[i] IN
    CASE o.kind = "step01_failed"    -> <<i, 0, SentinelScore, -1, "step01_failed">>
      [] o.kind = "aggregate_failed" -> <<i, 0, SentinelScore, -1, "aggregate_failed", "">>
      [] o.kind = "step02_failed"    -> <<i, 0, SentinelScore, -1, "step02_failed">>
      [] o.kind = "score_error"      -> <<i, i, SentinelScore, -1, "score_error", "">>
      [] OTHER                       -> <<i, i, o.score, o.tc, "ok", "diag">>

\* cfg, opt_csv, score, tc, status, diag = <tuple>: ValueError unless six fields
Unpacks(ret) == Len(ret) = 6

\* optimized_csvs.append((cfg, opt_csv, score, tc)) when status == 'ok'
Recorded(ret) ==
    IF ret[5] = "ok"
    THEN Append(optimized_csvs, [cfg |-> ret[1], score |-> ret[3], tc |-> ret[4]])
    ELSE optimized_csvs

(***************************************************************************)
(* run_wave_pipeline: best-candidate selection                             *)
(***************************************************************************)
BestInit == [best |-> 0, best_score |-> SentinelScore, best_tc |-> NoneTC]

\* the condition of the selection loop
Replaces(sc, tc, acc) ==
    \/ sc > acc.best_score + Eps
    \/ /\ Abs(sc - acc.best_score) <= Eps
       /\ (acc.best_tc = NoneTC \/ (tc # NoTractCount /\ tc < acc.best_tc))

BestStep(acc, e) ==
    IF Replaces(e.score, e.tc, acc)
    THEN [best |-> e.cfg, best_score |-> e.score, best_tc |-> e.tc]
    ELSE acc

RECURSIVE BestLoop(_, _)
BestLoop(list, acc) ==
    IF list = <<>> THEN acc ELSE BestLoop(Tail(list), BestStep(acc, Head(list)))

(***************************************************************************)
(* run_wave_pipeline: the sweep and what follows it                        *)
(***************************************************************************)
Tasks == 1..NCombos

NotWave == UNCHANGED <<bayesVars, evalVars, aggVars, reviewVars, paretoVars, sweepVars, mainVars, applyVars, scoreVars, prepVars, deriveVars>>

WaveStart ==
    /\ run = 1
    /\ max_parallel = 1
    /\ rc3 \in {0, 1}
    /\ wpc = "sweep"
    /\ pos = 1
    /\ fut = [i \in Tasks |-> "pending"]
    /\ optimized_csvs = <<>>
    /\ best = 0
    /\ wave_result = "none"
    /\ seq_ref = <<"none", 0>>
    /\ prune_nonbest \in BOOLEAN
    /\ combo_dirs = [i \in Tasks |-> "present"]

WaveInit == outcome \in [Tasks -> Outcomes] /\ WaveStart

\* the wave started on combinations whose scores reach down to -2.0
LowScoresInit == outcome \in [Tasks -> LowOutcomes] /\ WaveStart

\* max_parallel <= 1: one iteration of "for i, cfg_path, combo_out in tasks"
SeqIteration ==
    /\ wpc = "sweep"
    /\ max_parallel <= 1
    /\ pos <= NCombos
    /\ LET ret == RunCombo(pos) IN
       IF Unpacks(ret)
       THEN /\ optimized_csvs' = Recorded(ret)
            /\ pos' = pos + 1
            /\ UNCHANGED <<wpc, wave_result>>
       ELSE /\ wpc' = "raised"
            /\ wave_result' = "raised"
            /\ UNCHANGED <<optimized_csvs, pos>>
    /\ UNCHANGED <<prune_nonbest, combo_dirs, run, max_parallel, outcome, rc3, fut, best, seq_ref>>
    /\ NotWave

Running == {j \in Tasks : fut[j] = "running"}

\* a pool thread takes the next submitted task
StartCombo(i) ==
    /\ wpc = "sweep"
    /\ max_parallel > 1
    /\ fut[i] = "pending"
    /\ \A j \in Tasks : j < i => fut[j] # "pending"
    /\ Cardinality(Running) < max_parallel
    /\ fut' = [fut EXCEPT ![i] = "running"]
    /\ UNCHANGED <<prune_nonbest, combo_dirs, run, max_parallel, outcome, rc3, wpc, pos, optimized_csvs,
                   best, wave_result, seq_ref>>
    /\ NotWave

\* run_combo returns in its pool thread
FinishCombo(i) ==
    /\ wpc = "sweep"
    /\ fut[i] = "running"
    /\ fut' = [fut EXCEPT ![i] = "finished"]
    /\ UNCHANGED <<prune_nonbest, combo_dirs, run, max_parallel, outcome, rc3, wpc, pos, optimized_csvs,
                   best, wave_result, seq_ref>>
    /\ NotWave

\* one iteration of "for fut in as_completed(futs)"
CollectCombo(i) ==
    /\ wpc = "sweep"
    /\ fut[i] = "finished"
    /\ fut' = [fut EXCEPT ![i] = "collected"]
    /\ LET ret == RunCombo(i) IN
       optimized_csvs' = IF Unpacks(ret) THEN Recorded(ret) ELSE optimized_csvs
    /\ UNCHANGED <<prune_nonbest, combo_dirs, run, max_parallel, outcome, rc3, wpc, pos, best, wave_result,
                   seq_ref>>
    /\ NotWave

SweepOver ==
    /\ wpc = "sweep"
    /\ IF max_parallel <= 1 THEN pos > NCombos
       ELSE \A i \in Tasks : fut[i] = "collected"

\* "if not optimized_csvs: return False"
NoSuccessfulCombo ==
    /\ SweepOver
    /\ optimized_csvs = <<>>
    /\ wpc' = "done"
    /\ wave_result' = "False"
    /\ UNCHANGED <<prune_nonbest, combo_dirs, run, max_parallel, outcome, rc3, pos, fut, optimized_csvs,
                   best, seq_ref>>
    /\ NotWave

\* the selection loop and "if not best: return False"
ChooseBest ==
    /\ SweepOver
    /\ optimized_csvs # <<>>
    /\ LET b == BestLoop(optimized_csvs, BestInit).best IN
       /\ best' = b
       /\ IF b = 0
          THEN wpc' = "done" /\ wave_result' = "False"
          ELSE wpc' = "step03" /\ UNCHANGED wave_result
    /\ UNCHANGED <<prune_nonbest, combo_dirs, run, max_parallel, outcome, rc3, pos, fut, optimized_csvs,
                   seq_ref>>
    /\ NotWave

\* combo_out / '02_optimization' exists: run_combo got as far as Step 02
HasStep02(i) == outcome[i].kind \notin {"step01_failed", "aggregate_failed"}

\* a run that deletes without being asked to
PruneAlways == TRUE

\* "if prune_nonbest:"
PruneRequested == prune_nonbest

\* a pruning without the test "child != best_opt_csv.parent.parent"
PrunedWithBest ==
    [i \in Tasks |->
        IF combo_dirs[i] = "present" /\ HasStep02(i) THEN "deleted" ELSE combo_dirs[i]]

\* shutil.rmtree of every sweep_* directory with a 02_optimization that is
\* not the directory of the best combination
Pruned ==
    [i \in Tasks |->
        IF combo_dirs[i] = "present" /\ HasStep02(i) /\ i # best
        THEN "deleted" ELSE combo_dirs[i]]

\* Step 03 for the best combination, the selection metadata and the pruning
Step03 ==
    /\ wpc = "step03"
    /\ wpc' = "done"
    /\ wave_result' = IF rc3 # 0 THEN "False" ELSE "True"
    /\ combo_dirs' = IF rc3 = 0 /\ PruneRequested THEN Pruned ELSE combo_dirs
    /\ UNCHANGED <<prune_nonbest, run, max_parallel, outcome, rc3, pos, fut, optimized_csvs,
                   best, seq_ref>>
    /\ NotWave

WaveOver == wpc \in {"done", "raised"}

\* the same wave run again with --max-parallel > 1
RerunParallel ==
    /\ run = 1
    /\ WaveOver
    /\ run' = 2
    /\ max_parallel' = MaxParallel
    /\ seq_ref' = <<wave_result, best>>
    /\ wpc' = "sweep"
    /\ pos' = 1
    /\ fut' = [i \in Tasks |-> "pending"]
    /\ optimized_csvs' = <<>>
    /\ best' = 0
    /\ wave_result' = "none"
    /\ combo_dirs' = [i \in Tasks |-> "present"]
    /\ UNCHANGED <<outcome, rc3, prune_nonbest>>
    /\ NotWave

WaveNext ==
    \/ SeqIteration
    \/ \E i \in Tasks : StartCombo(i)
    \/ \E i \in Tasks : FinishCombo(i)
    \/ \E i \in Tasks : CollectCombo(i)
    \/ NoSuccessfulCombo
    \/ ChooseBest
    \/ Step03
    \/ RerunParallel

WaveIdle ==
    /\ run = 0 /\ max_parallel = 0 /\ outcome = <<>> /\ rc3 = 0 /\ wpc = "idle"
    /\ pos = 0 /\ fut = <<>> /\ optimized_csvs = <<>> /\ best = 0
    /\ wave_result = "none" /\ seq_ref = <<"none", 0>>
    /\ prune_nonbest = FALSE /\ combo_dirs = <<>>


(***************************************************************************)
(* BayesianOptimizer                                                       *)
(***************************************************************************)
NegInf == -999999             \* -np.inf
NoParams == 0                 \* best_params = None

Points == {1, 2}              \* the parameter vectors opt.ask() returns
QAScores == {50000, 60000}    \* mean_qa of a successful evaluation: 0.5, 0.6

MainThread == 0
PoolThreads == 1..MaxWorkers
Threads == {MainThread} \cup PoolThreads

NoTask == [x |-> 0, iteration |-> 0, mean_qa |-> 0, y |-> 0]

NotBayes == UNCHANGED <<waveVars, evalVars, aggVars, reviewVars, paretoVars, sweepVars, mainVars, applyVars, scoreVars, prepVars, deriveVars>>

\* BayesianOptimizer.__init__ followed by optimizer.max_workers = args.max_workers
BayesInit ==
    /\ max_workers \in {1, MaxWorkers}
    /\ iteration_results = <<>>
    /\ best_score = NegInf
    /\ best_params = NoParams
    /\ progress = <<>>
    /\ lock = {}
    /\ mpc = "loop"
    /\ tpc = [t \in Threads |-> "idle"]
    /\ task = [t \in Threads |-> NoTask]
    /\ queue = <<>>
    /\ next_iteration = 1
    /\ n_evals = 0
    /\ asked = 0
    /\ told = 0
    /\ resumed_from = -1
    /\ tellers = {}
    /\ tell_log = {}

Min(a, b) == IF a < b THEN a ELSE b

\* sequential branch: x = opt.ask(); _evaluate_params(x, len(iteration_results) + 1)
SeqAskEvaluate ==
    /\ mpc = "loop"
    /\ max_workers <= 1
    /\ Len(iteration_results) < NIterations
    /\ n_evals < MaxEvals
    /\ \E x \in Points :
          task' = [task EXCEPT ![MainThread] =
                      [x |-> x, iteration |-> Len(iteration_results) + 1,
                       mean_qa |-> 0, y |-> 0]]
    /\ tpc' = [tpc EXCEPT ![MainThread] = "pipeline"]
    /\ mpc' = "eval"
    /\ asked' = asked + 1
    /\ n_evals' = n_evals + 1
    /\ UNCHANGED <<max_workers, iteration_results, best_score, best_params,
                   progress, lock, queue, next_iteration, told, resumed_from, tellers, tell_log>>
    /\ NotBayes

\* opt.tell(x, y) for the evaluation thread t has returned: its iteration and y
Told(t) == [iteration |-> task[t].iteration, y |-> task[t].y]

\* sequential branch: opt.tell(x, y)
SeqTell ==
    /\ mpc = "eval"
    /\ tpc[MainThread] = "returned"
    /\ told' = told + 1
    /\ tell_log' = tell_log \cup {Told(MainThread)}
    /\ tpc' = [tpc EXCEPT ![MainThread] = "idle"]
    /\ task' = [task EXCEPT ![MainThread] = NoTask]
    /\ mpc' = "loop"
    /\ UNCHANGED <<max_workers, iteration_results, best_score, best_params,
                   progress, lock, queue, next_iteration, n_evals, asked,
                   resumed_from, tellers>>
    /\ NotBayes

\* parallel branch: ask up to max_workers points and submit them
ParAskSubmit ==
    /\ mpc = "loop"
    /\ max_workers > 1
    /\ Len(iteration_results) < NIterations
    /\ LET k == Min(max_workers, NIterations - Len(iteration_results)) IN
       /\ n_evals + k <= MaxEvals
       /\ queue' \in [1..k -> Points]
       /\ asked' = asked + k
       /\ n_evals' = n_evals + k
    /\ mpc' = "collect"
    /\ UNCHANGED <<max_workers, iteration_results, best_score, best_params,
                   progress, lock, tpc, task, next_iteration, told, resumed_from, tellers, tell_log>>
    /\ NotBayes

\* evaluate_with_iteration(x) starts in a pool thread
WorkerStart(t) ==
    /\ t \in PoolThreads
    /\ t <= max_workers
    /\ tpc[t] = "idle"
    /\ queue # <<>>
    /\ task' = [task EXCEPT ![t] =
                   [x |-> Head(queue), iteration |-> next_iteration,
                    mean_qa |-> 0, y |-> 0]]
    /\ next_iteration' = next_iteration + 1
    /\ queue' = Tail(queue)
    /\ tpc' = [tpc EXCEPT ![t] = "pipeline"]
    /\ UNCHANGED <<max_workers, iteration_results, best_score, best_params,
                   progress, lock, mpc, n_evals, asked, told, resumed_from, tellers, tell_log>>
    /\ NotBayes

\* a tell made by the pool thread of the evaluation, as a done-callback would
WorkerTells(t) == t

\* the loop over as_completed(...) runs in the thread that called optimize()
Teller(t) == MainThread

\* parallel branch: "for future in as_completed(...)" yields the future of t
\* and opt.tell(x, y) is entered
ParTellBegin(t) ==
    /\ mpc = "collect"
    /\ t \in PoolThreads
    /\ tpc[t] = "returned"
    /\ Teller(t) \notin tellers
    /\ tellers' = tellers \cup {Teller(t)}
    /\ tpc' = [tpc EXCEPT ![t] = "telling"]
    /\ UNCHANGED <<max_workers, iteration_results, best_score, best_params,
                   progress, lock, mpc, task, queue, next_iteration, n_evals,
                   asked, told, resumed_from, tell_log>>
    /\ NotBayes

\* parallel branch: opt.tell(x, y) returns; "del futures_map[future]"
ParTell(t) ==
    /\ mpc = "collect"
    /\ t \in PoolThreads
    /\ tpc[t] = "telling"
    /\ told' = told + 1
    /\ tell_log' = tell_log \cup {Told(t)}
    /\ tellers' = tellers \ {Teller(t)}
    /\ tpc' = [tpc EXCEPT ![t] = "idle"]
    /\ task' = [task EXCEPT ![t] = NoTask]
    /\ UNCHANGED <<max_workers, iteration_results, best_score, best_params,
                   progress, lock, mpc, queue, next_iteration, n_evals, asked,
                   resumed_from>>
    /\ NotBayes

\* parallel branch: every future of the batch has been told
ParBatchDone ==
    /\ mpc = "collect"
    /\ queue = <<>>
    /\ \A t \in PoolThreads : tpc[t] = "idle"
    /\ mpc' = "loop"
    /\ UNCHANGED <<max_workers, iteration_results, best_score, best_params,
                   progress, lock, tpc, task, queue, next_iteration, n_evals,
                   asked, told, resumed_from, tellers, tell_log>>
    /\ NotBayes

\* "while len(self.iteration_results) < self.n_iterations" ends
OptimizeDone ==
    /\ mpc = "loop"
    /\ Len(iteration_results) >= NIterations
    /\ mpc' = "done"
    /\ UNCHANGED <<max_workers, iteration_results, best_score, best_params,
                   progress, lock, tpc, task, queue, next_iteration, n_evals,
                   asked, told, resumed_from, tellers, tell_log>>
    /\ NotBayes

\* the pipeline of _evaluate_params ends in one of its "return 0.0" paths:
\* nonzero exit code, no or unreadable results table, no QA column, exception
EvaluationFails(t) ==
    /\ tpc[t] = "pipeline"
    /\ task' = [task EXCEPT ![t].y = 0]
    /\ tpc' = [tpc EXCEPT ![t] = "returned"]
    /\ UNCHANGED <<max_workers, iteration_results, best_score, best_params,
                   progress, lock, mpc, queue, next_iteration, n_evals, asked,
                   told, resumed_from, tellers, tell_log>>
    /\ NotBayes

\* the pipeline succeeds and mean_qa is read from the results table
EvaluationScores(t) ==
    /\ tpc[t] = "pipeline"
    /\ \E q \in QAScores : task' = [task EXCEPT ![t].mean_qa = q]
    /\ tpc' = [tpc EXCEPT ![t] = "acquire"]
    /\ UNCHANGED <<max_workers, iteration_results, best_score, best_params,
                   progress, lock, mpc, queue, next_iteration, n_evals, asked,
                   told, resumed_from, tellers, tell_log>>
    /\ NotBayes

AcquireLockNoWait(t) ==
    /\ tpc[t] = "acquire"
    /\ lock' = lock \cup {t}
    /\ tpc' = [tpc EXCEPT ![t] = "append"]
    /\ UNCHANGED <<max_workers, iteration_results, best_score, best_params,
                   progress, mpc, task, queue, next_iteration, n_evals, asked,
                   told, resumed_from, tellers, tell_log>>
    /\ NotBayes

\* "with self._lock:" is entered
AcquireLock(t) ==
    /\ tpc[t] = "acquire"
    /\ lock = {}
    /\ lock' = {t}
    /\ tpc' = [tpc EXCEPT ![t] = "append"]
    /\ UNCHANGED <<max_workers, iteration_results, best_score, best_params,
                   progress, mpc, task, queue, next_iteration, n_evals, asked,
                   told, resumed_from, tellers, tell_log>>
    /\ NotBayes

\* self.iteration_results.append(result_record)
AppendRecord(t) ==
    /\ tpc[t] = "append"
    /\ iteration_results' =
          Append(iteration_results,
                 [iteration |-> task[t].iteration, qa_score |-> task[t].mean_qa,
                  params |-> task[t].x])
    /\ tpc' = [tpc EXCEPT ![t] = "check_best"]
    /\ UNCHANGED <<max_workers, best_score, best_params, progress, lock, mpc,
                   task, queue, next_iteration, n_evals, asked, told,
                   resumed_from, tellers, tell_log>>
    /\ NotBayes

WorseThanBest(mean_qa) == mean_qa < best_score

\* "if mean_qa > self.best_score"
BetterThanBest(mean_qa) == mean_qa > best_score

CheckBest(t) ==
    /\ tpc[t] = "check_best"
    /\ tpc' = [tpc EXCEPT ![t] =
                  IF BetterThanBest(task[t].mean_qa) THEN "write_best" ELSE "save"]
    /\ UNCHANGED <<max_workers, iteration_results, best_score, best_params,
                   progress, lock, mpc, task, queue, next_iteration, n_evals,
                   asked, told, resumed_from, tellers, tell_log>>
    /\ NotBayes

\* self.best_score = mean_qa; self.best_params = params.copy()
WriteBest(t) ==
    /\ tpc[t] = "write_best"
    /\ best_score' = task[t].mean_qa
    /\ best_params' = task[t].x
    /\ tpc' = [tpc EXCEPT ![t] = "save"]
    /\ UNCHANGED <<max_workers, iteration_results, progress, lock, mpc, task,
                   queue, next_iteration, n_evals, asked, told, resumed_from, tellers, tell_log>>
    /\ NotBayes

\* the dict _save_progress dumps; best_score None is NegInf here
ProgressRecord ==
    [n_iterations |-> NIterations,
     completed_iterations |-> Len(iteration_results),
     best_score |-> best_score,
     best_params |-> best_params,
     all_iterations |-> iteration_results]

\* self._save_progress()
SaveProgress(t) ==
    /\ tpc[t] = "save"
    /\ progress' = <<ProgressRecord>>
    /\ tpc' = [tpc EXCEPT ![t] = "release"]
    /\ UNCHANGED <<max_workers, iteration_results, best_score, best_params,
                   lock, mpc, task, queue, next_iteration, n_evals, asked, told,
                   resumed_from, tellers, tell_log>>
    /\ NotBayes

\* the with block is left; "return -mean_qa"
ReleaseLock(t) ==
    /\ tpc[t] = "release"
    /\ lock' = lock \ {t}
    /\ task' = [task EXCEPT ![t].y = -task[t].mean_qa]
    /\ tpc' = [tpc EXCEPT ![t] = "returned"]
    /\ UNCHANGED <<max_workers, iteration_results, best_score, best_params,
                   progress, mpc, queue, next_iteration, n_evals, asked, told,
                   resumed_from, tellers, tell_log>>
    /\ NotBayes

\* The process is stopped after N of the iterations have been recorded and the
\* optimizer is started again on the same output directory: __init__ builds
\* the state anew; the progress file is what the first process left.
Restart ==
    /\ resumed_from = -1
    /\ progress # <<>>
    /\ progress[1].completed_iterations < NIterations
    /\ resumed_from' = progress[1].completed_iterations
    /\ iteration_results' = <<>>
    /\ best_score' = NegInf
    /\ best_params' = NoParams
    /\ lock' = {}
    /\ mpc' = "loop"
    /\ tpc' = [t \in Threads |-> "idle"]
    /\ task' = [t \in Threads |-> NoTask]
    /\ queue' = <<>>
    /\ next_iteration' = 1
    /\ n_evals' = 0
    /\ asked' = 0
    /\ told' = 0
    /\ tellers' = {}
    /\ tell_log' = {}
    /\ UNCHANGED <<max_workers, progress>>
    /\ NotBayes

\* KeyboardInterrupt in the sequential branch: "except KeyboardInterrupt:
\* raise". Popen.wait() passes the exception on and the child keeps running;
\* a with block is left through its __exit__.
InterruptSequential ==
    /\ max_workers <= 1
    /\ mpc \in {"loop", "eval"}
    /\ mpc' = "raised"
    /\ tpc' = [tpc EXCEPT ![MainThread] =
                  IF tpc[MainThread] = "pipeline" THEN "abandoned"
                  ELSE IF tpc[MainThread] \in {"idle", "returned"} THEN tpc[MainThread]
                  ELSE "interrupted"]
    /\ lock' = lock \ {MainThread}
    /\ UNCHANGED <<max_workers, iteration_results, best_score, best_params,
                   progress, task, queue, next_iteration, n_evals, asked, told,
                   resumed_from, tellers, tell_log>>
    /\ NotBayes

\* KeyboardInterrupt in the parallel branch: the main thread leaves the loop
\* for "finally: executor.shutdown(wait=True)"
InterruptParallel ==
    /\ max_workers > 1
    /\ mpc \in {"loop", "collect"}
    /\ mpc' = "shutdown"
    /\ tpc' = [t \in Threads |-> IF tpc[t] = "telling" THEN "returned" ELSE tpc[t]]
    /\ tellers' = {}
    /\ UNCHANGED <<max_workers, iteration_results, best_score, best_params,
                   progress, lock, task, queue, next_iteration, n_evals, asked,
                   told, resumed_from, tell_log>>
    /\ NotBayes

\* shutdown(wait=True) returns: no work item is queued, no worker is busy
ShutdownDone ==
    /\ mpc = "shutdown"
    /\ queue = <<>>
    /\ \A t \in PoolThreads : tpc[t] \in {"idle", "returned"}
    /\ mpc' = "raised"
    /\ UNCHANGED <<max_workers, iteration_results, best_score, best_params,
                   progress, lock, tpc, task, queue, next_iteration, n_evals,
                   asked, told, resumed_from, tellers, tell_log>>
    /\ NotBayes

BayesNext ==
    \/ SeqAskEvaluate
    \/ SeqTell
    \/ ParAskSubmit
    \/ \E t \in Threads : WorkerStart(t)
    \/ \E t \in Threads : ParTellBegin(t)
    \/ \E t \in Threads : ParTell(t)
    \/ ParBatchDone
    \/ OptimizeDone
    \/ \E t \in Threads : EvaluationFails(t)
    \/ \E t \in Threads : EvaluationScores(t)
    \/ \E t \in Threads : AcquireLock(t)
    \/ \E t \in Threads : AppendRecord(t)
    \/ \E t \in Threads : CheckBest(t)
    \/ \E t \in Threads : WriteBest(t)
    \/ \E t \in Threads : SaveProgress(t)
    \/ \E t \in Threads : ReleaseLock(t)

BayesIdle ==
    /\ max_workers = 0 /\ iteration_results = <<>> /\ best_score = 0
    /\ best_params = 0 /\ progress = <<>> /\ lock = {} /\ mpc = "idle"
    /\ tpc = <<>> /\ task = <<>> /\ queue = <<>> /\ next_iteration = 0
    /\ n_evals = 0 /\ asked = 0 /\ told = 0 /\ resumed_from = -1
    /\ tellers = {} /\ tell_log = {}

(***************************************************************************)
(* An evaluator invocation and its external child process                  *)
(***************************************************************************)
Timeout == 30                 \* timeout=1800 seconds, in minutes

EvalKinds == {"bayes", "wave", "extraction"}

\* Only run_connectivity_extraction passes timeout= to subprocess.run;
\* run_with_spinner uses Popen.wait()/poll() and run_combo subprocess.run
\* without one.
HasTimeout(kind) == kind = "extraction"

NotEval == UNCHANGED <<waveVars, bayesVars, aggVars, reviewVars, paretoVars, sweepVars, mainVars, applyVars, scoreVars, prepVars, deriveVars>>

EvalInit ==
    /\ ev_kind \in EvalKinds
    /\ epc = "call"
    /\ child = "none"
    /\ elapsed = 0
    /\ ev_status = "none"

\* subprocess.Popen / subprocess.run starts the child and waits for it
SpawnChild ==
    /\ epc = "call"
    /\ epc' = "waiting"
    /\ child' = "running"
    /\ UNCHANGED <<ev_kind, elapsed, ev_status>>
    /\ NotEval

\* a minute passes while the caller waits
Tick ==
    /\ epc = "waiting"
    /\ child = "running"
    /\ elapsed < Timeout + MaxOverrun
    /\ HasTimeout(ev_kind) => elapsed < Timeout
    /\ elapsed' = elapsed + 1
    /\ UNCHANGED <<ev_kind, epc, child, ev_status>>
    /\ NotEval

\* the child exits by itself and the wait returns its exit code
ChildExits ==
    /\ epc = "waiting"
    /\ child = "running"
    /\ child' = "exited"
    /\ \E rc \in {0, 1} : ev_status' = IF rc = 0 THEN "ok" ELSE "failed"
    /\ epc' = "returned"
    /\ UNCHANGED <<ev_kind, elapsed>>
    /\ NotEval

\* subprocess.run(timeout=...) kills the child, waits for it and raises
\* TimeoutExpired, which is logged as "Extraction timed out"
TimeoutExpired ==
    /\ epc = "waiting"
    /\ child = "running"
    /\ HasTimeout(ev_kind)
    /\ elapsed >= Timeout
    /\ child' = "killed"
    /\ ev_status' = "timeout"
    /\ epc' = "returned"
    /\ UNCHANGED <<ev_kind, elapsed>>
    /\ NotEval

EvalNext == SpawnChild \/ Tick \/ ChildExits \/ TimeoutExpired

EvalIdle ==
    /\ ev_kind = "none" /\ epc = "idle" /\ child = "none" /\ elapsed = 0
    /\ ev_status = "none"

(***************************************************************************)
(* aggregate_top_candidates                                                *)
(***************************************************************************)
NWaves == 2                   \* the optimizer aggregates wave 1 and wave 2
NoneTractCount == 0           \* tract_count = None

Ids == {"A", "B"}             \* (atlas, connectivity_metric) pairs
AggScores == {60, 80}         \* pure_qa_score 0.60, 0.80
WaveTractCounts == {NoneTractCount, 1}

Candidate == [id : Ids, score : AggScores]
CandLists == UNION {[1..n -> Candidate] : n \in 0..MaxCands}
WaveFile == [tract_count : WaveTractCounts, candidates : CandLists]
NoReturn == -1                \* the command has not returned

NotAgg == UNCHANGED <<waveVars, bayesVars, evalVars, reviewVars, paretoVars, sweepVars, mainVars, applyVars, scoreVars, prepVars, deriveVars>>

AggInit ==
    /\ version \in {"scripts", "utils"}
    /\ wave_files \in [1..NWaves -> WaveFile]
    /\ apc = "load"
    /\ widx = 1
    /\ scores = <<>>
    /\ details = <<>>
    /\ ranked = <<>>
    /\ agg_rc = NoReturn

\* key = (atlas, metric) in scripts/, (atlas, metric, tract_count) in scripts/utils/
CandidateKey(c, tract_count) ==
    IF version = "utils" THEN <<c.id, tract_count>> ELSE <<c.id>>

\* d.setdefault(key, []).append(v) on a dict kept in insertion order
SetDefaultAppend(d, key, v) ==
    IF \E k \in 1..Len(d) : d[k].key = key
    THEN [k \in 1..Len(d) |->
             IF d[k].key = key
             THEN [key |-> key, vals |-> Append(d[k].vals, v)]
             ELSE d[k]]
    ELSE Append(d, [key |-> key, vals |-> <<v>>])

\* the body of "for c in candidates"
AddCandidate(acc, w, c) ==
    LET key == CandidateKey(c, wave_files[w].tract_count) IN
    [scores  |-> SetDefaultAppend(acc.scores, key, c.score),
     details |-> SetDefaultAppend(acc.details, key, [wave |-> w, score |-> c.score])]

RECURSIVE AddCandidates(_, _, _)
AddCandidates(acc, w, cands) ==
    IF cands = <<>> THEN acc
    ELSE AddCandidates(AddCandidate(acc, w, Head(cands)), w, Tail(cands))

\* one iteration of "for wave in wave_dirs"
LoadWave ==
    /\ apc = "load"
    /\ widx <= NWaves
    /\ LET acc == AddCandidates([scores |-> scores, details |-> details], widx,
                                wave_files[widx].candidates) IN
       /\ scores' = acc.scores
       /\ details' = acc.details
    /\ widx' = widx + 1
    /\ UNCHANGED <<version, wave_files, apc, ranked, agg_rc>>
    /\ NotAgg

RECURSIVE SumSeq(_)
SumSeq(q) == IF q = <<>> THEN 0 ELSE Head(q) + SumSeq(Tail(q))

\* avg = sum(vals) / len(vals), kept as the exact fraction
Average(vals) == [num |-> SumSeq(vals), den |-> Len(vals)]

Less(a, b) == a.num * b.den < b.num * a.den

\* one element of ranked
RankedEntry(k) ==
    [key |-> scores[k].key,
     average_score |-> Average(scores[k].vals),
     waves_considered |-> Len(scores[k].vals),
     per_wave |-> details[k].vals]

\* list.sort(key=average_score, reverse=True) is stable: an element goes
\* behind every element whose average is not smaller
InsertByAverage(sorted, e) ==
    LET before == {k \in 1..Len(sorted) : ~ Less(sorted[k].average_score, e.average_score)}
        n == Cardinality(before)
    IN  SubSeq(sorted, 1, n) \o <<e>> \o SubSeq(sorted, n + 1, Len(sorted))

RECURSIVE SortByAverage(_, _)
SortByAverage(list, sorted) ==
    IF list = <<>> THEN sorted
    ELSE SortByAverage(Tail(list), InsertByAverage(sorted, Head(list)))

\* the loop over scores.items(), the sort and the two json.dump; main
\* prints the returned dict and returns 0
RankAndWrite ==
    /\ apc = "load"
    /\ widx > NWaves
    /\ ranked' = SortByAverage([k \in 1..Len(scores) |-> RankedEntry(k)], <<>>)
    /\ apc' = "done"
    /\ agg_rc' = 0
    /\ UNCHANGED <<version, wave_files, widx, scores, details>>
    /\ NotAgg

AggNext == LoadWave \/ RankAndWrite

AggIdle ==
    /\ version = "none" /\ wave_files = <<>> /\ apc = "idle" /\ widx = 0
    /\ scores = <<>> /\ details = <<>> /\ ranked = <<>> /\ agg_rc = NoReturn

(***************************************************************************)
(* opticonn review: automatic selection of the best candidate              *)
(***************************************************************************)
NoRow == [id |-> "", score |-> 0, wave |-> 0]

NotReview == UNCHANGED <<waveVars, bayesVars, evalVars, aggVars, paretoVars, sweepVars, mainVars, applyVars, scoreVars, prepVars, deriveVars>>

ReviewInit ==
    /\ files \in UNION {[1..n -> CandLists] : n \in 0..NWaves}
    /\ all_candidates = <<>>
    /\ rpc = "load"
    /\ best_dict = NoRow
    /\ warned = FALSE
    /\ review_rc = NoReturn

\* item["wave"] = wave_name for every item of one file
RowsOf(w) ==
    [k \in 1..Len(files[w]) |->
        [id |-> files[w][k].id, score |-> files[w][k].score, wave |-> w]]

RECURSIVE ExtendAll(_)
ExtendAll(w) == IF w = 0 THEN <<>> ELSE ExtendAll(w - 1) \o RowsOf(w)

\* glob, "if not files: return 1", the loading loop, "if not all_candidates"
ReviewLoad ==
    /\ rpc = "load"
    /\ LET rows == ExtendAll(Len(files)) IN
       IF files = <<>> \/ rows = <<>>
       THEN /\ rpc' = "done"
            /\ review_rc' = 1
            /\ UNCHANGED all_candidates
       ELSE /\ rpc' = "select"
            /\ all_candidates' = rows
            /\ UNCHANGED review_rc
    /\ UNCHANGED <<files, best_dict, warned>>
    /\ NotReview

RowIdx == 1..Len(all_candidates)

\* df.groupby("candidate_key")["wave"].nunique()
WaveCount(id) ==
    Cardinality({all_candidates[k].wave : k \in {j \in RowIdx : all_candidates[j].id = id}})

\* df["wave"].nunique()
TotalWaves == Cardinality({all_candidates[k].wave : k \in RowIdx})

\* df[df["waves_present"] == total_waves]
Consistent == {k \in RowIdx : WaveCount(all_candidates[k].id) = TotalWaves}

RECURSIVE SumScores(_)
SumScores(K) ==
    IF K = {} THEN 0
    ELSE LET k == CHOOSE x \in K : TRUE IN all_candidates[k].score + SumScores(K \ {k})

\* df.groupby("candidate_key")["pure_qa_score"].mean()
AvgQA(id) ==
    LET K == {j \in RowIdx : all_candidates[j].id = id} IN
    [num |-> SumScores(K), den |-> Cardinality(K)]

\* Series.idxmax(): the first label holding the maximum
IdxMax(K, val) ==
    CHOOSE k \in K :
        /\ \A j \in K : ~ Less(val[k], val[j])
        /\ \A j \in K : j < k => Less(val[j], val[k])

RowScore(k) == [num |-> all_candidates[k].score, den |-> 1]
RowAvgQA(k) == AvgQA(all_candidates[k].id)

\* the selection and the json.dump of selected_candidate.json
ReviewSelect ==
    /\ rpc = "select"
    /\ IF Consistent = {}
       THEN /\ warned' = TRUE
            /\ best_dict' = all_candidates[IdxMax(RowIdx, [k \in RowIdx |-> RowScore(k)])]
       ELSE /\ warned' = FALSE
            /\ best_dict' = all_candidates[IdxMax(Consistent, [k \in Consistent |-> RowAvgQA(k)])]
    /\ rpc' = "done"
    /\ review_rc' = 0
    /\ UNCHANGED <<files, all_candidates>>
    /\ NotReview

ReviewNext == ReviewLoad \/ ReviewSelect

ReviewIdle ==
    /\ files = <<>> /\ all_candidates = <<>> /\ rpc = "idle"
    /\ best_dict = NoRow /\ warned = FALSE /\ review_rc = NoReturn

(***************************************************************************)
(* pareto_front                                                            *)
(***************************************************************************)
Inf == 1000000                \* np.inf
NoDensity == -1               \* density_mean is None or NaN
DensityLo == 5                \* --density-range LO = 0.05
DensityHi == 40               \* --density-range HI = 0.40

\* the rows a table is made of: tract_count, density_mean in 0.01, score in
\* 0.1, and one row without a density
RowValues ==
    [tract_count : {5, 10}, density_mean : {20, 50}, score : {5, 9}]
    \cup [tract_count : {5}, density_mean : {NoDensity}, score : {9}]

Tables ==
    UNION {{[k \in 1..n |-> [sweep_id |-> k, tract_count |-> t[k].tract_count,
                              density_mean |-> t[k].density_mean, score |-> t[k].score]] :
               t \in [1..n -> RowValues]} : n \in 0..MaxRows}

NotPareto == UNCHANGED <<waveVars, bayesVars, evalVars, aggVars, reviewVars, sweepVars, mainVars, applyVars, scoreVars, prepVars, deriveVars>>

ParetoInit ==
    /\ df \in Tables
    /\ front = <<>>
    /\ front_ref = <<>>
    /\ ppc = "ready"
    /\ reordered = FALSE

\* _density_deviation(d, lo, hi)
DensityDeviation(d, lo, hi) ==
    IF d = NoDensity THEN Inf
    ELSE IF d < lo THEN lo - d
    ELSE IF d > hi THEN d - hi
    ELSE 0

IsFinite(x) == x # Inf /\ x # -Inf

\* np.where(np.isfinite(objs), objs, [inf, inf, -inf]) and the negated score
Objs(row) ==
    LET cost == row.tract_count
        dev == DensityDeviation(row.density_mean, DensityLo, DensityHi)
        score == row.score
    IN  <<IF IsFinite(cost) THEN cost ELSE Inf,
          IF IsFinite(dev) THEN dev ELSE Inf,
          -(IF IsFinite(score) THEN score ELSE -Inf)>>

NoStrictness(a, b) == TRUE

\* np.any(objs < objs[i], axis=1)
AnyLess(a, b) == \E d \in 1..3 : a[d] < b[d]

\* np.all(objs <= objs[i], axis=1)
AllLessEq(a, b) == \A d \in 1..3 : a[d] <= b[d]

EarlierRows(i) == 1..(i - 1)

\* the rows objs[i] is compared with: all of them
ComparedWith(i) == 1..Len(df)

\* the mask "dominates" of row i, with dominates[i] = False
DominatesMask(i) ==
    {j \in ComparedWith(i) :
        /\ j # i
        /\ AllLessEq(Objs(df[j]), Objs(df[i]))
        /\ AnyLess(Objs(df[j]), Objs(df[i]))}

\* "for i in range(n)" from row i on, is_efficient being a boolean sequence
RECURSIVE EfficientLoop(_, _)
EfficientLoop(i, is_efficient) ==
    IF i > Len(df) THEN is_efficient
    ELSE IF ~ is_efficient[i] THEN EfficientLoop(i + 1, is_efficient)
    ELSE EfficientLoop(i + 1,
            IF DominatesMask(i) # {}
            THEN [is_efficient EXCEPT ![i] = FALSE]
            ELSE is_efficient)

\* data[is_efficient]
SelectRows(is_efficient) ==
    LET keep == {k \in 1..Len(df) : is_efficient[k]}
        F[k \in 0..Len(df)] ==
            IF k = 0 THEN <<>>
            ELSE IF k \in keep THEN Append(F[k - 1], df[k]) ELSE F[k - 1]
    IN  F[Len(df)]

\* pareto_front(df, score_col, lo, hi)
ParetoFront ==
    /\ ppc = "ready"
    /\ front' = SelectRows(EfficientLoop(1, [k \in 1..Len(df) |-> TRUE]))
    /\ ppc' = "done"
    /\ UNCHANGED <<df, front_ref, reordered>>
    /\ NotPareto

\* the same table is given again with its rows in another order
ReorderRows ==
    /\ ppc = "done"
    /\ ~ reordered
    /\ \E p \in Permutations(1..Len(df)) : df' = [k \in 1..Len(df) |-> df[p[k]]]
    /\ front_ref' = front
    /\ front' = <<>>
    /\ ppc' = "ready"
    /\ reordered' = TRUE
    /\ NotPareto

ParetoNext == ParetoFront \/ ReorderRows

ParetoIdle ==
    /\ df = <<>> /\ front = <<>> /\ front_ref = <<>> /\ ppc = "idle"
    /\ reordered = FALSE

(***************************************************************************)
(* sweep_utils: grid, random and Latin-hypercube sampling                  *)
(***************************************************************************)
DefaultSeed == 42             \* seed: int = 42
RngMod == 16                  \* states of the modelled generators

\* the keys of sweep_parameters, in the order of the config file
Keys == <<"p1", "p2">>

\* value lists without repeated values
ValueLists ==
    {q \in UNION {[1..n -> 1..MaxVals] : n \in 0..MaxVals} :
        \A i, j \in 1..Len(q) : q[i] = q[j] => i = j}

\* a key is absent, a {"values": [...]} dict, a plain list, or anything else
\* (a {low, high} range)
Declarations ==
    {[kind |-> "absent", values |-> <<>>], [kind |-> "range", values |-> <<>>]}
    \cup [kind : {"values", "list"}, values : ValueLists]

NotSweep == UNCHANGED <<waveVars, bayesVars, evalVars, aggVars, reviewVars, paretoVars, mainVars, applyVars, scoreVars, prepVars, deriveVars>>

SweepInit ==
    /\ sweep_parameters \in [1..Len(Keys) -> Declarations]
    /\ method \in {"grid", "random", "lhs"}
    /\ n_samples \in 1..MaxSamples
    /\ pydoe2 \in BOOLEAN
    /\ rng = 0
    /\ np_rng = 0
    /\ combos = <<>>
    /\ combos_ref = <<>>
    /\ sweep_error = "none"
    /\ spc = "ready"
    /\ calls = 0

\* build_param_grid_from_config: the declarations that become grid axes
RECURSIVE BuildParamGrid(_)
BuildParamGrid(k) ==
    IF k = 0 THEN <<>>
    ELSE IF sweep_parameters[k].kind \in {"values", "list"}
         THEN Append(BuildParamGrid(k - 1),
                     [key |-> Keys[k], values |-> sweep_parameters[k].values])
         ELSE BuildParamGrid(k - 1)

ParamValues == BuildParamGrid(Len(Keys))

\* dict(zip(keys, p))
Combination(param_values, p) ==
    [key \in {param_values[i].key : i \in 1..Len(param_values)} |->
        p[CHOOSE i \in 1..Len(param_values) : param_values[i].key = key]]

HeadsOnly(grids) ==
    IF \E i \in 1..Len(grids) : grids[i] = <<>> THEN <<>>
    ELSE <<[i \in 1..Len(grids) |-> grids[i][1]]>>

RECURSIVE PrefixEach(_, _)
PrefixEach(v, tuples) ==
    IF tuples = <<>> THEN <<>>
    ELSE <<<<v>> \o Head(tuples)>> \o PrefixEach(v, Tail(tuples))

RECURSIVE GridProductFrom(_, _)
\* itertools.product(*grids): the first grid varies slowest
GridProduct(grids) == GridProductFrom(grids, 1)

RECURSIVE ProductOver(_, _)
ProductOver(vals, rest) ==
    IF vals = <<>> THEN <<>>
    ELSE PrefixEach(Head(vals), rest) \o ProductOver(Tail(vals), rest)

GridProductFrom(grids, k) ==
    IF k > Len(grids) THEN <<<<>>>>
    ELSE ProductOver(grids[k], GridProductFrom(grids, k + 1))

Grids(param_values) == [i \in 1..Len(param_values) |-> param_values[i].values]

\* grid_product(param_values)
GridSampling(param_values) ==
    IF param_values = <<>> THEN <<Combination(<<>>, <<>>)>>
    ELSE LET product == GridProduct(Grids(param_values)) IN
         [k \in 1..Len(product) |-> Combination(param_values, product[k])]

\* random.seed(seed), np.random.seed(seed)
SeedRandom(seed) == seed % RngMod

\* the generator's next state
NextState(s) == (5 * s + 3) % RngMod

RECURSIVE Iterate(_, _)
Iterate(s, n) == IF n = 0 THEN s ELSE Iterate(NextState(s), n - 1)

Result(samples, error, r, np) ==
    [samples |-> samples, error |-> error, rng |-> r, np_rng |-> np]

\* {keys[i]: random.choice(grids[i]) for i in range(len(keys))}: the values
\* drawn for the axes i.. from state s, and the state after them
RECURSIVE DrawTuple(_, _, _)
DrawTuple(grids, i, s) ==
    IF i > Len(grids) THEN [p |-> <<>>, s |-> s]
    ELSE LET s1 == NextState(s)
             v == grids[i][((s1 \div 2) % Len(grids[i])) + 1]
             rest == DrawTuple(grids, i + 1, s1)
         IN  [p |-> <<v>> \o rest.p, s |-> rest.s]

RECURSIVE DrawSamples(_, _, _)
DrawSamples(grids, n, s) ==
    IF n = 0 THEN [ps |-> <<>>, s |-> s]
    ELSE LET one == DrawTuple(grids, 1, s)
             rest == DrawSamples(grids, n - 1, one.s)
         IN  [ps |-> <<one.p>> \o rest.ps, s |-> rest.s]

\* the first axis without values: random.choice and grids[j][-1] raise there
FirstEmpty(grids) ==
    IF \E i \in 1..Len(grids) : grids[i] = <<>>
    THEN CHOOSE i \in 1..Len(grids) :
            grids[i] = <<>> /\ \A j \in 1..(i - 1) : grids[j] # <<>>
    ELSE 0

\* random_sampling(param_values, n_samples, seed)
RandomSampling(param_values, n, seed) ==
    LET grids == Grids(param_values) IN
    IF param_values = <<>>
    THEN Result([k \in 1..n |-> Combination(<<>>, <<>>)], "none", rng, np_rng)
    ELSE IF FirstEmpty(grids) # 0
    THEN Result(<<>>, "IndexError",
                Iterate(SeedRandom(seed), FirstEmpty(grids) - 1), np_rng)
    ELSE LET d == DrawSamples(grids, n, SeedRandom(seed)) IN
         Result([k \in 1..n |-> Combination(param_values, d.ps[k])], "none",
                d.s, np_rng)

LhsUnit == 4                  \* a stratum is divided into quarters

\* lhs(n_dim, samples=n) of pyDOE2 under the seed: row i, column j holds a
\* point of one stratum of [0, 1), as a numerator over n * LhsUnit; every
\* column visits every stratum once
Lhd(n_dim, n, s0) ==
    [i \in 1..n |-> [j \in 1..n_dim |->
        LET rot == Iterate(s0, n * n_dim + j) % n
            stratum == ((i - 1) + rot) % n
            frac == Iterate(s0, stratum * n_dim + j) % LhsUnit
        IN  stratum * LhsUnit + frac]]

Min2(a, b) == IF a < b THEN a ELSE b

\* idx = min(int(lhd[i, j] * len(grids[j])), len(grids[j]) - 1)
LhsIndex(h, n, len) == Min2((h * len) \div (n * LhsUnit), len - 1)

\* lhs_sampling(param_values, n_samples, seed)
LhsSampling(param_values, n, seed) ==
    LET grids == Grids(param_values)
        n_dim == Len(param_values)
        s0 == SeedRandom(seed)
        lhd == Lhd(n_dim, n, s0)
        after == Iterate(s0, n * n_dim + n_dim)
    IN
    IF ~ pydoe2 THEN Result(<<>>, "ImportError", rng, np_rng)
    ELSE IF param_values = <<>>
    THEN Result([k \in 1..n |-> Combination(<<>>, <<>>)], "none", rng, np_rng)
    ELSE IF FirstEmpty(grids) # 0 THEN Result(<<>>, "IndexError", rng, after)
    ELSE Result([i \in 1..n |->
                    Combination(param_values,
                        [j \in 1..n_dim |->
                            grids[j][LhsIndex(lhd[i][j], n, Len(grids[j])) + 1]])],
                "none", rng, after)

\* the sampler named by method is called on the declared parameters
Sample ==
    /\ spc = "ready"
    /\ LET r == CASE method = "grid" ->
                       Result(GridSampling(ParamValues), "none", rng, np_rng)
                  [] method = "random" ->
                       RandomSampling(ParamValues, n_samples, DefaultSeed)
                  [] OTHER -> LhsSampling(ParamValues, n_samples, DefaultSeed)
       IN  /\ combos' = r.samples
           /\ sweep_error' = r.error
           /\ rng' = r.rng
           /\ np_rng' = r.np_rng
    /\ spc' = "done"
    /\ calls' = calls + 1
    /\ UNCHANGED <<sweep_parameters, method, n_samples, pydoe2, combos_ref>>
    /\ NotSweep

\* the same call is made a second time in the same process
SampleAgain ==
    /\ spc = "done"
    /\ calls = 1
    /\ sweep_error = "none"
    /\ combos_ref' = combos
    /\ combos' = <<>>
    /\ spc' = "ready"
    /\ UNCHANGED <<sweep_parameters, method, n_samples, pydoe2, rng, np_rng,
                   sweep_error, calls>>
    /\ NotSweep

SweepNext == Sample \/ SampleAgain

SweepIdle ==
    /\ sweep_parameters = <<>> /\ method = "none" /\ n_samples = 0
    /\ pydoe2 = FALSE /\ rng = 0 /\ np_rng = 0 /\ combos = <<>>
    /\ combos_ref = <<>> /\ sweep_error = "none" /\ spc = "idle" /\ calls = 0

(***************************************************************************)
(* main: two waves, then the cross-wave aggregation                        *)
(***************************************************************************)
\* what a combination does in the runs of main: a failure returning five
\* fields, a failure returning six, a success
MainOutcomes ==
    {o \in Outcomes : o.kind \in {"step01_failed", "aggregate_failed"}
                      \/ (o.kind = "ok" /\ o.tc = 1)}

NotMain == UNCHANGED <<bayesVars, evalVars, aggVars, reviewVars, paretoVars, sweepVars, applyVars, scoreVars, prepVars, deriveVars>>

MainInit ==
    /\ wave_no = 1
    /\ pool_empty \in [1..NWaves -> BOOLEAN]
    /\ wave_success = <<>>
    /\ ok_counts = <<>>
    /\ exit_status = NoReturn
    /\ aggregated = FALSE
    /\ main_pc = "waves"
    /\ run = 1
    /\ max_parallel \in {1, MaxParallel}
    /\ outcome \in [Tasks -> MainOutcomes]
    /\ rc3 \in {0, 1}
    /\ wpc = "start"
    /\ pos = 1
    /\ fut = [i \in Tasks |-> "pending"]
    /\ optimized_csvs = <<>>
    /\ best = 0
    /\ wave_result = "none"
    /\ seq_ref = <<"none", 0>>
    /\ prune_nonbest \in BOOLEAN
    /\ combo_dirs = [i \in Tasks |-> "absent"]

\* run_wave_pipeline up to the sweep: "if not pool: return False"
SelectSubjects ==
    /\ main_pc = "waves"
    /\ wpc = "start"
    /\ IF pool_empty[wave_no]
       THEN wpc' = "done" /\ wave_result' = "False"
       ELSE wpc' = "sweep" /\ UNCHANGED wave_result
    /\ combo_dirs' = IF pool_empty[wave_no] THEN combo_dirs
                      ELSE [i \in Tasks |-> "present"]
    /\ UNCHANGED <<prune_nonbest, run, max_parallel, outcome, rc3, pos, fut, optimized_csvs, best,
                   seq_ref>>
    /\ UNCHANGED mainVars
    /\ NotMain

\* wave1_success = run_wave_pipeline(...) has returned; wave 2 is started
SecondWave ==
    /\ main_pc = "waves"
    /\ wave_no = 1
    /\ wpc = "done"
    /\ wave_success' = Append(wave_success, wave_result = "True")
    /\ ok_counts' = Append(ok_counts, Len(optimized_csvs))
    /\ wave_no' = 2
    /\ outcome' \in [Tasks -> MainOutcomes]
    /\ rc3' \in {0, 1}
    /\ wpc' = "start"
    /\ pos' = 1
    /\ fut' = [i \in Tasks |-> "pending"]
    /\ optimized_csvs' = <<>>
    /\ best' = 0
    /\ wave_result' = "none"
    /\ combo_dirs' = [i \in Tasks |-> "absent"]
    /\ UNCHANGED <<run, max_parallel, seq_ref, prune_nonbest>>
    /\ UNCHANGED <<pool_empty, exit_status, aggregated, main_pc>>
    /\ NotMain

\* an exception leaves run_wave_pipeline and main: the interpreter exits with 1
UncaughtException ==
    /\ main_pc = "waves"
    /\ wpc = "raised"
    /\ wave_success' = Append(wave_success, FALSE)
    /\ ok_counts' = Append(ok_counts, Len(optimized_csvs))
    /\ exit_status' = 1
    /\ main_pc' = "exited"
    /\ UNCHANGED <<wave_no, pool_empty, aggregated>>
    /\ UNCHANGED waveVars
    /\ NotMain

AnySucceeded(ws) == \E w \in 1..Len(ws) : ws[w]

\* "if wave1_success and wave2_success"
AllSucceeded(ws) == \A w \in 1..Len(ws) : ws[w]

\* the final summary: aggregation and return, or sys.exit(1)
FinalSummary ==
    /\ main_pc = "waves"
    /\ wave_no = NWaves
    /\ wpc = "done"
    /\ LET ws == Append(wave_success, wave_result = "True") IN
       /\ wave_success' = ws
       /\ IF AllSucceeded(ws)
          THEN aggregated' = TRUE /\ exit_status' = 0
          ELSE aggregated' = FALSE /\ exit_status' = 1
    /\ ok_counts' = Append(ok_counts, Len(optimized_csvs))
    /\ main_pc' = "exited"
    /\ UNCHANGED <<wave_no, pool_empty>>
    /\ UNCHANGED waveVars
    /\ NotMain

MainNext ==
    \/ SelectSubjects
    \/ SeqIteration
    \/ \E i \in Tasks : StartCombo(i)
    \/ \E i \in Tasks : FinishCombo(i)
    \/ \E i \in Tasks : CollectCombo(i)
    \/ NoSuccessfulCombo
    \/ ChooseBest
    \/ Step03
    \/ SecondWave
    \/ UncaughtException
    \/ FinalSummary

MainIdle ==
    /\ wave_no = 0 /\ pool_empty = <<>> /\ wave_success = <<>> /\ ok_counts = <<>>
    /\ exit_status = NoReturn /\ aggregated = FALSE /\ main_pc = "idle"

(***************************************************************************)
(* opticonn apply: the candidate of rank --candidate-index becomes the     *)
(* extraction configuration                                                *)
(***************************************************************************)
NoValue == -1                 \* the key is absent or null

\* the keys copied from the candidate's tracking_parameters
TrackingKeys ==
    {"fa_threshold", "turning_angle", "step_size", "smoothing",
     "min_length", "max_length", "track_voxel_ratio", "dt_threshold"}

\* the keys a candidate's tracking_parameters can hold
SnapshotKeys == TrackingKeys \cup {"otsu_threshold"}

NoTracking == [k \in SnapshotKeys |-> NoValue]

\* a missing "parameters" and an empty one are copied alike
NoParameters ==
    [tract_count |-> NoValue, tracking_parameters |-> NoTracking,
     connectivity_threshold |-> NoValue]

Snapshots ==
    {NoParameters,
     [tract_count |-> 1000,
      tracking_parameters |-> [NoTracking EXCEPT !["fa_threshold"] = 1, !["otsu_threshold"] = 6],
      connectivity_threshold |-> 1],
     [tract_count |-> 2000,
      tracking_parameters |-> [NoTracking EXCEPT !["step_size"] = 5],
      connectivity_threshold |-> NoValue]}

\* the score keys and per_wave scores an entry can carry
ScoreShapes ==
    {[average_score |-> 7, score |-> NoValue, per_wave |-> <<>>],
     [average_score |-> NoValue, score |-> 6, per_wave |-> <<>>],
     [average_score |-> 5, score |-> 9, per_wave |-> <<>>],
     [average_score |-> NoValue, score |-> NoValue, per_wave |-> <<4, 9>>],
     [average_score |-> NoValue, score |-> NoValue, per_wave |-> <<>>]}

Identities ==
    {[atlas |-> "A", connectivity_metric |-> "count"],
     [atlas |-> "B", connectivity_metric |-> "fa"]}

Entries ==
    {[atlas |-> i.atlas, connectivity_metric |-> i.connectivity_metric,
      average_score |-> s.average_score, score |-> s.score,
      per_wave |-> s.per_wave, parameters |-> p] :
        i \in Identities, s \in ScoreShapes, p \in Snapshots}

NoEntry ==
    [atlas |-> "", connectivity_metric |-> "", average_score |-> NoValue,
     score |-> NoValue, per_wave |-> <<>>, parameters |-> NoParameters]

NoConfig ==
    [atlases |-> <<>>, connectivity_values |-> <<>>, tract_count |-> NoValue,
     tracking_parameters |-> [k \in TrackingKeys |-> NoValue],
     connectivity_threshold |-> NoValue]

NotApply == UNCHANGED <<waveVars, bayesVars, evalVars, aggVars, reviewVars, paretoVars, sweepVars, mainVars, scoreVars, prepVars, deriveVars>>

ApplyInit ==
    /\ cfg_json \in UNION {[1..n -> Entries] : n \in 0..MaxCands}
    /\ candidate_index \in 0..(MaxCands + 1)
    /\ chosen = NoEntry
    /\ extraction_cfg = NoConfig
    /\ apply_error = ""
    /\ apply_pc = "start"

\* def score(obj): the first numeric key, else the mean of per_wave, else 0.0
Score(obj) ==
    IF obj.average_score # NoValue THEN [num |-> obj.average_score, den |-> 1]
    ELSE IF obj.score # NoValue THEN [num |-> obj.score, den |-> 1]
    ELSE IF obj.per_wave # <<>> THEN Average(obj.per_wave)
    ELSE [num |-> 0, den |-> 1]

\* a list.append that leaves the list in file order
AppendUnsorted(sorted, e) == Append(sorted, e)

\* sorted(..., reverse=True) is stable: an element goes behind every
\* element whose score is not smaller
InsertByScore(sorted, e) ==
    LET before == {k \in 1..Len(sorted) : ~ Less(Score(sorted[k]), Score(e))}
        n == Cardinality(before)
    IN  SubSeq(sorted, 1, n) \o <<e>> \o SubSeq(sorted, n + 1, Len(sorted))

RECURSIVE SortedByScore(_, _)
SortedByScore(list, sorted) ==
    IF list = <<>> THEN sorted
    ELSE SortedByScore(Tail(list), InsertByScore(sorted, Head(list)))

\* max(1, min(args.candidate_index, len(ranked))), a position counted from 1
ClampIndex(k, n) ==
    LET m == IF k < n THEN k ELSE n IN IF m > 1 THEN m ELSE 1

\* extraction_cfg with the parameter snapshot merged in
ExtractionCfg(c) ==
    [atlases |-> <<c.atlas>>,
     connectivity_values |-> <<c.connectivity_metric>>,
     tract_count |-> c.parameters.tract_count,
     tracking_parameters |-> [k \in TrackingKeys |-> c.parameters.tracking_parameters[k]],
     connectivity_threshold |-> c.parameters.connectivity_threshold]

\* the list branch of apply up to the write of extraction_from_selection.json
ApplySelection ==
    /\ apply_pc = "start"
    /\ cfg_json # <<>>
    /\ LET ranked_list == SortedByScore(cfg_json, <<>>)
           c == ranked_list[ClampIndex(candidate_index, Len(ranked_list))]
       IN  /\ chosen' = c
           /\ extraction_cfg' = ExtractionCfg(c)
    /\ apply_pc' = "done"
    /\ UNCHANGED <<cfg_json, candidate_index, apply_error>>
    /\ NotApply

\* ranked[0] of an empty list
ApplyEmptyList ==
    /\ apply_pc = "start"
    /\ cfg_json = <<>>
    /\ apply_error' = "IndexError"
    /\ apply_pc' = "done"
    /\ UNCHANGED <<cfg_json, candidate_index, chosen, extraction_cfg>>
    /\ NotApply

ApplyNext == ApplySelection \/ ApplyEmptyList

ApplyIdle ==
    /\ cfg_json = <<>> /\ candidate_index = 0 /\ chosen = NoEntry
    /\ extraction_cfg = NoConfig /\ apply_error = "" /\ apply_pc = "idle"

(***************************************************************************)
(* The score of one evaluation, read from optimized_metrics.csv            *)
(***************************************************************************)
NaN == -1                     \* an empty cell of the csv
NanScore == [num |-> 0, den |-> 0]
Cells == {NaN, 2, 6}
NormCells == {NaN, 10}
TableRows == [raw : Cells, norm : NormCells]

NotScore == UNCHANGED <<waveVars, bayesVars, evalVars, aggVars, reviewVars, paretoVars, sweepVars, mainVars, applyVars, prepVars, deriveVars>>

ScoreInit ==
    /\ reader \in {"wave", "bayes"}
    /\ has_raw \in BOOLEAN
    /\ has_norm \in BOOLEAN
    /\ table \in UNION {[1..n -> TableRows] : n \in 0..MaxRows}
    /\ qa_score = NanScore
    /\ qa_pc = "read"

\* the cells of a column that hold a number: pandas skips nan
RawCells == {k \in 1..Len(table) : table[k].raw # NaN}
NormValues == {k \in 1..Len(table) : table[k].norm # NaN}

RECURSIVE SumRaw(_)
SumRaw(K) ==
    IF K = {} THEN 0
    ELSE LET k == CHOOSE x \in K : TRUE IN table[k].raw + SumRaw(K \ {k})

RECURSIVE SumNorm(_)
SumNorm(K) ==
    IF K = {} THEN 0
    ELSE LET k == CHOOSE x \in K : TRUE IN table[k].norm + SumNorm(K \ {k})

\* df['quality_score_raw'].mean(): nan when no cell holds a number
RawMean == [num |-> SumRaw(RawCells), den |-> Cardinality(RawCells)]

\* df['quality_score'].mean()
NormMean == [num |-> SumNorm(NormValues), den |-> Cardinality(NormValues)]

\* df['quality_score'].max()
NormMax ==
    IF NormValues = {} THEN NanScore
    ELSE LET k == CHOOSE x \in NormValues : \A y \in NormValues : table[y].norm <= table[x].norm
         IN  [num |-> table[k].norm, den |-> 1]

IsNan(x) == x.den = 0

\* score = raw_mean if not np.isnan(raw_mean) else (norm_max if not np.isnan(norm_max) else -1.0)
FirstNotNan(raw_mean, norm_max) ==
    IF ~ IsNan(raw_mean) THEN raw_mean
    ELSE IF ~ IsNan(norm_max) THEN norm_max
    ELSE [num |-> -1, den |-> 1]

\* run_combo: "Evaluate score"
WaveScore ==
    FirstNotNan(IF has_raw THEN RawMean ELSE NanScore,
                IF has_norm THEN NormMax ELSE NanScore)

\* _evaluate_params: 0.0 for a table without rows or without a score column
BayesScore ==
    IF table = <<>> THEN [num |-> 0, den |-> 1]
    ELSE IF has_raw THEN RawMean
    ELSE IF has_norm THEN NormMean
    ELSE [num |-> 0, den |-> 1]

ReadWaveScore ==
    /\ qa_pc = "read"
    /\ reader = "wave"
    /\ qa_score' = WaveScore
    /\ qa_pc' = "done"
    /\ UNCHANGED <<reader, has_raw, has_norm, table>>
    /\ NotScore

ReadBayesScore ==
    /\ qa_pc = "read"
    /\ reader = "bayes"
    /\ qa_score' = BayesScore
    /\ qa_pc' = "done"
    /\ UNCHANGED <<reader, has_raw, has_norm, table>>
    /\ NotScore

ScoreNext == ReadWaveScore \/ ReadBayesScore

ScoreIdle ==
    /\ reader = "none" /\ has_raw = FALSE /\ has_norm = FALSE /\ table = <<>>
    /\ qa_score = NanScore /\ qa_pc = "idle"

(***************************************************************************)
(* _evaluate_params: the subject sampled and the configuration written     *)
(* for an iteration; evaluation t is iteration t                           *)
(***************************************************************************)
AllSubjects == <<"sub-01", "sub-02", "sub-03">>   \* self.all_subjects
NoFile == [tract_count |-> 0, tracking_parameters |-> 0]

NotPrep == UNCHANGED <<waveVars, bayesVars, evalVars, aggVars, reviewVars, paretoVars, sweepVars, mainVars, applyVars, scoreVars, deriveVars>>

PrepInit ==
    /\ concurrent \in BOOLEAN
    /\ has_tracking \in BOOLEAN
    /\ params_of \in [PoolThreads -> Points]
    /\ prep_pc = [t \in PoolThreads |-> "seed"]
    /\ global_rng \in 0..(RngMod - 1)
    /\ base_tracking = 0
    /\ own_tracking = [t \in PoolThreads |-> 0]
    /\ config_files = [t \in PoolThreads |-> NoFile]
    /\ sampled = [t \in PoolThreads |-> ""]

\* without a pool the evaluations follow one another
MayRun(t) == concurrent \/ \A u \in PoolThreads : u < t => prep_pc[u] = "done"

\* random.seed(42 + iteration)
SeedForIteration(t) ==
    /\ prep_pc[t] = "seed"
    /\ MayRun(t)
    /\ global_rng' = SeedRandom(DefaultSeed + t)
    /\ prep_pc' = [prep_pc EXCEPT ![t] = "choice"]
    /\ UNCHANGED <<concurrent, has_tracking, params_of, base_tracking, own_tracking,
                   config_files, sampled>>
    /\ NotPrep

\* random.choice(seq) on the generator in state s
Choice(seq, s) == seq[((NextState(s) \div 2) % Len(seq)) + 1]

\* subject = random.choice(self.all_subjects)
ChooseSubject(t) ==
    /\ prep_pc[t] = "choice"
    /\ sampled' = [sampled EXCEPT ![t] = Choice(AllSubjects, global_rng)]
    /\ global_rng' = NextState(global_rng)
    /\ prep_pc' = [prep_pc EXCEPT ![t] = "update"]
    /\ UNCHANGED <<concurrent, has_tracking, params_of, base_tracking, own_tracking,
                   config_files>>
    /\ NotPrep

\* config = self.base_config.copy() is shallow: config.get('tracking_parameters', {})
\* is the dict of base_config when it has one; tracking_params.update({...})
UpdateTracking(t) ==
    /\ prep_pc[t] = "update"
    /\ IF has_tracking
       THEN base_tracking' = params_of[t] /\ UNCHANGED own_tracking
       ELSE own_tracking' = [own_tracking EXCEPT ![t] = params_of[t]]
            /\ UNCHANGED base_tracking
    /\ prep_pc' = [prep_pc EXCEPT ![t] = "dump"]
    /\ UNCHANGED <<concurrent, has_tracking, params_of, global_rng, config_files,
                   sampled>>
    /\ NotPrep

\* json.dump(config, f)
DumpConfig(t) ==
    /\ prep_pc[t] = "dump"
    /\ config_files' =
          [config_files EXCEPT ![t] =
              [tract_count |-> params_of[t],
               tracking_parameters |->
                   IF has_tracking THEN base_tracking ELSE own_tracking[t]]]
    /\ prep_pc' = [prep_pc EXCEPT ![t] = "done"]
    /\ UNCHANGED <<concurrent, has_tracking, params_of, global_rng, base_tracking,
                   own_tracking, sampled>>
    /\ NotPrep

PrepNext ==
    \/ \E t \in PoolThreads : SeedForIteration(t)
    \/ \E t \in PoolThreads : ChooseSubject(t)
    \/ \E t \in PoolThreads : UpdateTracking(t)
    \/ \E t \in PoolThreads : DumpConfig(t)

PrepIdle ==
    /\ concurrent = FALSE /\ has_tracking = FALSE /\ params_of = <<>>
    /\ prep_pc = <<>> /\ global_rng = 0 /\ base_tracking = 0
    /\ own_tracking = <<>> /\ config_files = <<>> /\ sampled = <<>>

(***************************************************************************)
(* apply_param_choice_to_config: a dict is a function from positions (key  *)
(* paths) to "missing", "dict" or a value; a dotted path is a string, here *)
(* a sequence of characters                                                *)
(***************************************************************************)
ChoiceKeys == <<"p", "q">>
ChoiceValues == {"v1", "v2"}
Positions ==
    {<<"a">>, <<"t">>, <<"c">>, <<"p">>, <<"q">>,
     <<"a", "x">>, <<"t", "x">>, <<"t", "y">>, <<"c", "y">>}

DottedPaths ==
    {<<"a">>, <<"t">>, <<"t", ".", "x">>, <<"t", ".", "y">>, <<"c", ".", "y">>,
     <<"a", ".", "x">>}

BaseConfigs ==
    {cfg \in [Positions -> {"missing", "dict", "b"}] :
        /\ cfg[<<"a">>] = "b" /\ cfg[<<"a", "x">>] = "missing"
        /\ cfg[<<"t">>] \in {"missing", "dict"}
        /\ cfg[<<"t">>] = "missing" => cfg[<<"t", "x">>] = "missing" /\ cfg[<<"t", "y">>] = "missing"
        /\ cfg[<<"t", "x">>] # "dict" /\ cfg[<<"t", "y">>] # "dict"
        /\ cfg[<<"c">>] = "missing" /\ cfg[<<"c", "y">>] = "missing"
        /\ cfg[<<"p">>] \in {"missing", "b"}
        /\ cfg[<<"q">>] = "missing"}

Choices ==
    {<<>>} \cup
    {<<[key |-> ChoiceKeys[k], value |-> v]>> : k \in 1..2, v \in ChoiceValues} \cup
    {<<[key |-> "p", value |-> v], [key |-> "q", value |-> w]>> :
        v \in ChoiceValues, w \in ChoiceValues}

NotDerive == UNCHANGED <<waveVars, bayesVars, evalVars, aggVars, reviewVars, paretoVars, sweepVars, mainVars, applyVars, scoreVars, prepVars>>

DeriveInit ==
    /\ base_config \in BaseConfigs
    /\ choice \in Choices
    /\ mapping \in [{"p", "q"} -> DottedPaths \cup {<<>>}]
    /\ derived_config = [at \in Positions |-> "missing"]
    /\ derive_error = ""
    /\ derive_pc = "call"

\* str.split('.'): the parts between the dots
RECURSIVE Split(_, _)
Split(str, part) ==
    IF str = <<>> THEN <<part>>
    ELSE IF Head(str) = "." THEN <<part>> \o Split(Tail(str), "")
    ELSE Split(Tail(str), Head(str))

\* copy.copy would leave the nested dicts shared with base_config
ShallowCopyShares == TRUE

\* copy.deepcopy(base_config) shares no dict with base_config
CopyShares == FALSE

IsPrefixOf(a, b) == Len(a) <= Len(b) /\ SubSeq(b, 1, Len(a)) = a

\* target[path_parts[-1]] = value, or derived_config[key] = value: what the
\* position held before, a dict included, is replaced
SetValue(cfg, at, value) ==
    [q \in Positions |->
        IF q = at THEN value
        ELSE IF IsPrefixOf(at, q) THEN "missing"
        ELSE cfg[q]]

\* the loop over path_parts[:-1]: a missing part becomes {}, and a part that
\* holds no dict raises TypeError
Navigate(cfg, parts) ==
    IF Len(parts) = 1 THEN [cfg |-> cfg, error |-> ""]
    ELSE LET first == <<parts[1]>> IN
         IF cfg[first] = "missing"
         THEN [cfg |-> [cfg EXCEPT ![first] = "dict"], error |-> ""]
         ELSE IF cfg[first] = "dict" THEN [cfg |-> cfg, error |-> ""]
         ELSE [cfg |-> cfg, error |-> "TypeError"]

\* the body of "for key, value in choice.items()"
ApplyOne(cfg, c) ==
    IF mapping[c.key] # <<>>
    THEN LET parts == Split(mapping[c.key], "")
             nav == Navigate(cfg, parts)
         IN  IF nav.error # "" THEN nav
             ELSE [cfg |-> SetValue(nav.cfg, parts, c.value), error |-> ""]
    ELSE [cfg |-> SetValue(cfg, <<c.key>>, c.value), error |-> ""]

RECURSIVE ApplyAll(_, _)
ApplyAll(cfg, cs) ==
    IF cs = <<>> THEN [cfg |-> cfg, error |-> ""]
    ELSE LET one == ApplyOne(cfg, Head(cs)) IN
         IF one.error # "" THEN one ELSE ApplyAll(one.cfg, Tail(cs))

\* the nested dicts of base_config as the caller sees them afterwards
BaseAfter(result) ==
    IF CopyShares
    THEN [at \in Positions |->
             IF Len(at) = 2 /\ base_config[<<at[1]>>] = "dict"
             THEN result[at] ELSE base_config[at]]
    ELSE base_config

ApplyParamChoice ==
    /\ derive_pc = "call"
    /\ LET r == ApplyAll(base_config, choice) IN
       /\ derive_error' = r.error
       /\ derived_config' = IF r.error = "" THEN r.cfg ELSE derived_config
       /\ base_config' = BaseAfter(r.cfg)
    /\ derive_pc' = "returned"
    /\ UNCHANGED <<choice, mapping>>
    /\ NotDerive

DeriveNext == ApplyParamChoice

DeriveIdle ==
    /\ base_config = <<>> /\ choice = <<>> /\ mapping = <<>>
    /\ derived_config = <<>> /\ derive_error = "" /\ derive_pc = "idle"

(***************************************************************************)
(* Specifications                                                          *)
(***************************************************************************)
InitWave == WaveInit /\ BayesIdle /\ EvalIdle /\ AggIdle /\ ReviewIdle /\ ParetoIdle /\ SweepIdle /\ MainIdle /\ ApplyIdle /\ ScoreIdle /\ PrepIdle /\ DeriveIdle
SpecWave == InitWave /\ [][WaveNext]_vars

InitLowScores == LowScoresInit /\ BayesIdle /\ EvalIdle /\ AggIdle /\ ReviewIdle /\ ParetoIdle /\ SweepIdle /\ MainIdle /\ ApplyIdle /\ ScoreIdle /\ PrepIdle /\ DeriveIdle
SpecLowScores == InitLowScores /\ [][WaveNext]_vars

InitBayes == BayesInit /\ WaveIdle /\ EvalIdle /\ AggIdle /\ ReviewIdle /\ ParetoIdle /\ SweepIdle /\ MainIdle /\ ApplyIdle /\ ScoreIdle /\ PrepIdle /\ DeriveIdle
SpecBayes == InitBayes /\ [][BayesNext]_vars

ResumeNext == BayesNext \/ Restart
SpecResume == InitBayes /\ [][ResumeNext]_vars

InterruptNext == BayesNext \/ InterruptSequential \/ InterruptParallel \/ ShutdownDone
SpecInterrupt == InitBayes /\ [][InterruptNext]_vars

InitEval == EvalInit /\ WaveIdle /\ BayesIdle /\ AggIdle /\ ReviewIdle /\ ParetoIdle /\ SweepIdle /\ MainIdle /\ ApplyIdle /\ ScoreIdle /\ PrepIdle /\ DeriveIdle
SpecEval == InitEval /\ [][EvalNext]_vars

InitAgg == AggInit /\ WaveIdle /\ BayesIdle /\ EvalIdle /\ ReviewIdle /\ ParetoIdle /\ SweepIdle /\ MainIdle /\ ApplyIdle /\ ScoreIdle /\ PrepIdle /\ DeriveIdle
SpecAgg == InitAgg /\ [][AggNext]_vars

InitReview == ReviewInit /\ WaveIdle /\ BayesIdle /\ EvalIdle /\ AggIdle /\ ParetoIdle /\ SweepIdle /\ MainIdle /\ ApplyIdle /\ ScoreIdle /\ PrepIdle /\ DeriveIdle
SpecReview == InitReview /\ [][ReviewNext]_vars

InitPareto == ParetoInit /\ WaveIdle /\ BayesIdle /\ EvalIdle /\ AggIdle /\ ReviewIdle /\ SweepIdle /\ MainIdle /\ ApplyIdle /\ ScoreIdle /\ PrepIdle /\ DeriveIdle
SpecPareto == InitPareto /\ [][ParetoNext]_vars

InitSweep == SweepInit /\ WaveIdle /\ BayesIdle /\ EvalIdle /\ AggIdle /\ ReviewIdle /\ ParetoIdle /\ MainIdle /\ ApplyIdle /\ ScoreIdle /\ PrepIdle /\ DeriveIdle
SpecSweep == InitSweep /\ [][SweepNext]_vars

InitMain == MainInit /\ BayesIdle /\ EvalIdle /\ AggIdle /\ ReviewIdle /\ ParetoIdle /\ SweepIdle /\ ApplyIdle /\ ScoreIdle /\ PrepIdle /\ DeriveIdle
SpecMain == InitMain /\ [][MainNext]_vars

InitApply == ApplyInit /\ WaveIdle /\ BayesIdle /\ EvalIdle /\ AggIdle /\ ReviewIdle /\ ParetoIdle /\ SweepIdle /\ MainIdle /\ ScoreIdle /\ PrepIdle /\ DeriveIdle
SpecApply == InitApply /\ [][ApplyNext]_vars

InitScore == ScoreInit /\ WaveIdle /\ BayesIdle /\ EvalIdle /\ AggIdle /\ ReviewIdle /\ ParetoIdle /\ SweepIdle /\ MainIdle /\ ApplyIdle /\ PrepIdle /\ DeriveIdle
SpecScore == InitScore /\ [][ScoreNext]_vars

InitPrep == PrepInit /\ WaveIdle /\ BayesIdle /\ EvalIdle /\ AggIdle /\ ReviewIdle /\ ParetoIdle /\ SweepIdle /\ MainIdle /\ ApplyIdle /\ ScoreIdle /\ DeriveIdle
SpecPrep == InitPrep /\ [][PrepNext]_vars

InitDerive == DeriveInit /\ WaveIdle /\ BayesIdle /\ EvalIdle /\ AggIdle /\ ReviewIdle /\ ParetoIdle /\ SweepIdle /\ MainIdle /\ ApplyIdle /\ ScoreIdle /\ PrepIdle
SpecDerive == InitDerive /\ [][DeriveNext]_vars

(***************************************************************************)
(* Claims about run_wave_pipeline                                          *)
(***************************************************************************)
Selected == wpc \in {"step03", "done"} /\ best # 0

Successful == {optimized_csvs[k] : k \in 1..Len(optimized_csvs)}

BestEntry == CHOOSE e \in Successful : e.cfg = best

RECURSIVE InSamplingOrder(_)
InSamplingOrder(S) ==
    IF S = {} THEN <<>>
    ELSE LET m == CHOOSE e \in S : \A f \in S : e.cfg <= f.cfg
         IN  <<m>> \o InSamplingOrder(S \ {m})

\* the combinations run_combo has been run for
Evaluated ==
    IF max_parallel <= 1
    THEN {i \in Tasks : i < pos \/ (wpc = "raised" /\ i = pos)}
    ELSE {i \in Tasks : fut[i] \in {"finished", "collected"}}

\* C1: the selected combination does not depend on the order in which the
\* results were recorded (it is the one selected from the same results taken
\* in sampling order), and a combination that ties with an earlier-sampled one
\* on score (within epsilon) and on cost is not selected in its place.
C1_SelectionIgnoresCompletionOrder ==
    Selected =>
        /\ best = BestLoop(InSamplingOrder(Successful), BestInit).best
        /\ \A e \in Successful :
              ~ /\ e.cfg < best
                /\ Abs(e.score - BestEntry.score) < Eps
                /\ e.tc = BestEntry.tc

\* C2: no successful combination scores more than epsilon above the selected
\* one, and none scores within epsilon of it at a strictly lower tract count.
C2_LowerCostWinsWithinEpsilon ==
    Selected =>
        \A e \in Successful :
            /\ ~ (e.score > BestEntry.score + Eps)
            /\ ~ /\ Abs(e.score - BestEntry.score) < Eps
                 /\ e.tc # NoTractCount
                 /\ BestEntry.tc # NoTractCount
                 /\ e.tc < BestEntry.tc

\* C3: the parallel run of a wave ends with the result and the best
\* combination of the run of the same wave with max_parallel = 1.
C3_ParallelEqualsSequential ==
    (run = 2 /\ WaveOver) => <<wave_result, best>> = seq_ref

\* C4: a combination whose external step fails never raises into the sweep,
\* and every combination of the wave has been evaluated when the wave ends.
C4_FailedStepNeverRaises ==
    WaveOver => (wave_result # "raised" /\ Evaluated = Tasks)


(***************************************************************************)
(* Claims about BayesianOptimizer                                          *)
(***************************************************************************)
InEvaluation(t) == tpc[t] \notin {"idle", "returned", "telling"}

\* C5: an optimization resumed with N of M iterations recorded in its
\* progress file continues from iteration N+1, evaluates none of 1..N again
\* and ends with a persisted completed count of M.
C5_ResumeContinuesAfterRecorded ==
    resumed_from > 0 =>
        /\ \A t \in Threads : InEvaluation(t) => task[t].iteration > resumed_from
        /\ mpc = "done" => progress[1].completed_iterations = NIterations

RECURSIVE MaxQA(_)
MaxQA(records) ==
    IF records = <<>> THEN NegInf
    ELSE LET m == MaxQA(Tail(records)) IN
         IF Head(records).qa_score > m THEN Head(records).qa_score ELSE m

BetweenAppendAndSave ==
    \E t \in Threads : tpc[t] \in {"check_best", "write_best", "save"}

CriticalSection == {"append", "check_best", "write_best", "save", "release"}

IsPrefix(a, b) == Len(a) <= Len(b) /\ SubSeq(b, 1, Len(a)) = a

\* C7: every read-modify-write of best score, best parameters and the list
\* of records happens while the thread holds the one mutex, so no
\* interleaving loses a record or replaces the best score by a lower one.
C7_SharedStateUnderMutex ==
    /\ [](\A t \in Threads : tpc[t] \in CriticalSection => lock = {t})
    /\ [][/\ IsPrefix(iteration_results, iteration_results')
          /\ best_score' >= best_score
          /\ (iteration_results' # iteration_results \/ best_score' # best_score
                \/ best_params' # best_params \/ progress' # progress)
               => \E t \in Threads : lock = {t} /\ tpc[t] \in CriticalSection]_vars

\* a worker waits for the mutex while another, holding it, is about to
\* compare its lower score with the best
C7_Witness ==
    \E t, u \in PoolThreads :
        /\ t # u
        /\ tpc[t] = "check_best"
        /\ tpc[u] = "acquire"
        /\ lock = {t}
        /\ task[t].mean_qa < best_score

(***************************************************************************)
(* Claims about evaluator invocations                                      *)
(***************************************************************************)
\* C8: an invocation whose child runs longer than the timeout ends with a
\* timeout status returned to the caller, who is never blocked further, and
\* the child is no longer running then.
C8_TimeoutEndsInvocation ==
    elapsed > Timeout =>
        /\ epc = "returned"
        /\ ev_status = "timeout"
        /\ child # "running"

(***************************************************************************)
(* Claims about aggregate_top_candidates                                   *)
(***************************************************************************)
\* the scores wave w lists for the identity key
ScoresIn(w, key) ==
    {wave_files[w].candidates[k].score : k \in
        {j \in 1..Len(wave_files[w].candidates) :
            CandidateKey(wave_files[w].candidates[j], wave_files[w].tract_count) = key}}

WavesWith(key) == {w \in 1..NWaves : ScoresIn(w, key) # {}}

RECURSIVE SumOver(_, _)
SumOver(f, S) ==
    IF S = {} THEN 0
    ELSE LET w == CHOOSE x \in S : TRUE IN f[w] + SumOver(f, S \ {w})

\* C9: average_score is the arithmetic mean of the scores recorded for the
\* identity, one per wave in which it appears, and waves_considered is the
\* number of those scores.
C9_AverageIsMeanOnePerWave ==
    apc = "done" =>
        \A k \in 1..Len(ranked) :
            LET r == ranked[k]
                W == WavesWith(r.key)
            IN  /\ r.waves_considered = Cardinality(W)
                /\ \E f \in [W -> AggScores] :
                      /\ \A w \in W : f[w] \in ScoresIn(w, r.key)
                      /\ r.average_score.num * Cardinality(W)
                            = SumOver(f, W) * r.average_score.den

\* C10: waves_considered never exceeds the number of waves passed to the
\* aggregation, whatever the wave files contain.
C10_WavesConsideredAtMostWaves ==
    apc = "done" =>
        \A k \in 1..Len(ranked) : ranked[k].waves_considered <= NWaves


\* every wave file lists an identity at most once
OncePerWave ==
    \A w \in 1..NWaves :
        \A j, k \in 1..Len(wave_files[w].candidates) :
            wave_files[w].candidates[j].id = wave_files[w].candidates[k].id => j = k

\* C11: the ranked list is ordered by average score descending, and two
\* candidates with equal average score are ordered by waves_considered
\* descending.
C11_RankedByAverageThenWaves ==
    (apc = "done" /\ OncePerWave) =>
        \A i, j \in 1..Len(ranked) :
            i < j =>
                /\ ~ Less(ranked[i].average_score, ranked[j].average_score)
                /\ (~ Less(ranked[j].average_score, ranked[i].average_score))
                      => ranked[i].waves_considered >= ranked[j].waves_considered


NoCandidates == \A w \in 1..NWaves : wave_files[w].candidates = <<>>

\* C18: when no wave produced any candidate, so that the ranked list is
\* empty, aggregation ends as a fatal error (a non-zero return) and does
\* not report success with an empty ranked list.
C18_EmptyAggregationIsFatal ==
    (apc = "done" /\ NoCandidates) => (ranked = <<>> /\ agg_rc # 0)


(***************************************************************************)
(* Claims about opticonn review                                            *)
(***************************************************************************)
\* the waves whose file lists the identity
FilesWith(id) == {w \in 1..Len(files) : \E k \in 1..Len(files[w]) : files[w][k].id = id}

InEveryWave == {id \in Ids : FilesWith(id) = 1..Len(files)}

\* C12: the selected candidate has the highest average score among the
\* candidates present in every wave; only when no candidate is present in
\* every wave is the highest-scored candidate overall selected, and then a
\* warning is printed.
C12_AutoBestPrefersEveryWave ==
    (rpc = "done" /\ review_rc = 0) =>
        IF InEveryWave # {}
        THEN /\ ~ warned
             /\ best_dict.id \in InEveryWave
             /\ \A id \in InEveryWave : ~ Less(AvgQA(best_dict.id), AvgQA(id))
        ELSE /\ warned
             /\ \A k \in RowIdx : all_candidates[k].score <= best_dict.score


(***************************************************************************)
(* Claims about pareto_front                                               *)
(***************************************************************************)
RowsOfSeq(q) == {q[k] : k \in 1..Len(q)}

\* cost, density deviation and negated score of a row
Objectives(r) ==
    <<r.tract_count, DensityDeviation(r.density_mean, DensityLo, DensityHi), -r.score>>

\* a dominates b: <= in every objective and < in at least one
Dominates(a, b) ==
    /\ \A d \in 1..3 : Objectives(a)[d] <= Objectives(b)[d]
    /\ \E d \in 1..3 : Objectives(a)[d] < Objectives(b)[d]

\* C13: the front is exactly the non-dominated subset of the table, so no
\* two rows of the front dominate one another.
C13_FrontIsNonDominatedSubset ==
    ppc = "done" =>
        /\ RowsOfSeq(front) =
              {r \in RowsOfSeq(df) : ~ \E o \in RowsOfSeq(df) : o # r /\ Dominates(o, r)}
        /\ \A r, o \in RowsOfSeq(front) : ~ Dominates(o, r)

\* P1(cost 10, dev 0, score 0.9), P2(5, 0, 0.9), P3(5, 0.1, 0.5): the front is {P2}
C13_Witness ==
    /\ ppc = "done"
    /\ df = <<[sweep_id |-> 1, tract_count |-> 10, density_mean |-> 20, score |-> 9],
              [sweep_id |-> 2, tract_count |-> 5, density_mean |-> 20, score |-> 9],
              [sweep_id |-> 3, tract_count |-> 5, density_mean |-> 50, score |-> 5]>>
    /\ front = <<df[2]>>

\* C14: the front of a table is the same set of rows for every order of its
\* rows.
C14_FrontIgnoresRowOrder ==
    (ppc = "done" /\ reordered) => RowsOfSeq(front) = RowsOfSeq(front_ref)

\* a reordered table with a dominated row and two rows in its front
C14_Witness ==
    /\ ppc = "done"
    /\ reordered
    /\ \E k \in 1..Len(df) : df[k].sweep_id # k
    /\ Len(front) >= 2
    /\ Len(front) < Len(df)


(***************************************************************************)
(* Claims about sweep_utils                                                *)
(***************************************************************************)
\* the keys declared with a value list, and the list of each
Dimensions == {k \in 1..Len(Keys) : sweep_parameters[k].kind \in {"values", "list"}}

RECURSIVE Cardinalities(_)
Cardinalities(D) ==
    IF D = {} THEN 1
    ELSE LET k == CHOOSE x \in D : TRUE
         IN  Len(sweep_parameters[k].values) * Cardinalities(D \ {k})

\* the combination assigns every dimension a value of its value list
InDomain(c) ==
    /\ DOMAIN c = {Keys[k] : k \in Dimensions}
    /\ \A k \in Dimensions :
          \E v \in 1..Len(sweep_parameters[k].values) :
              c[Keys[k]] = sweep_parameters[k].values[v]

C16_SamplingCountAndSeed ==
    (/\ spc = "done"
     /\ method \in {"random", "lhs"}
     /\ \A k \in Dimensions : sweep_parameters[k].values # <<>>) =>
        /\ sweep_error = "none"
        /\ Len(combos) = n_samples
        /\ \A i \in 1..Len(combos) : InDomain(combos[i])
        /\ calls = 2 => combos = combos_ref


(***************************************************************************)
(* Claims about main                                                       *)
(***************************************************************************)
\* wave w found no subjects, or none of its evaluations succeeded
WaveFailed(w) == pool_empty[w] \/ ok_counts[w] = 0

\* C17: when a wave has no subjects or none of its evaluations succeeded,
\* that wave fails and the run ends with a non-zero exit status without a
\* cross-wave aggregation.
C17_FailedWaveFailsRun ==
    main_pc = "exited" =>
        \A w \in 1..Len(ok_counts) :
            WaveFailed(w) =>
                /\ ~ wave_success[w]
                /\ exit_status # 0
                /\ ~ aggregated

\* wave 1 succeeded and wave 2, with subjects, had no successful evaluation
C17_Witness ==
    /\ main_pc = "exited"
    /\ Len(wave_success) = 2
    /\ wave_success[1]
    /\ ~ pool_empty[2]
    /\ ok_counts[2] = 0
    /\ max_parallel > 1
    /\ exit_status = 1

(***************************************************************************)
(* Claims about opticonn apply                                             *)
(***************************************************************************)
\* the entries of the list that score higher than c, and not lower than c
ScoringHigher(c) == {q \in 1..Len(cfg_json) : Less(Score(c), Score(cfg_json[q]))}
ScoringNotLower(c) == {q \in 1..Len(cfg_json) : ~ Less(Score(cfg_json[q]), Score(c))}

C20_NoPruneNoDeletion ==
    ~ prune_nonbest => \A i \in DOMAIN combo_dirs : combo_dirs[i] # "deleted"

\* a completed wave that leaves the directory of a non-best combination in place
C20_Witness ==
    /\ ~ prune_nonbest
    /\ wpc = "done"
    /\ wave_result = "True"
    /\ \E i \in Tasks : i # best /\ HasStep02(i) /\ combo_dirs[i] = "present"

(***************************************************************************)
(* Claims about the score of an evaluation                                 *)
(***************************************************************************)
SameScore(a, b) ==
    IF IsNan(a) \/ IsNan(b) THEN IsNan(a) /\ IsNan(b)
    ELSE a.num * b.den = b.num * a.den

\* C21: whenever the results table holds the raw quality-score column, the
\* score of the evaluation is the mean of that column, whatever the
\* normalized column holds.
C21_RawMeanIsTheScore ==
    (qa_pc = "done" /\ has_raw /\ table # <<>>) => SameScore(qa_score, RawMean)


(***************************************************************************)
(* Claims about the ask/tell loop of BayesianOptimizer.optimize            *)
(***************************************************************************)
\* the points asked and not yet told: submitted and waiting, or with a thread
Outstanding == Len(queue) + Cardinality({t \in PoolThreads : tpc[t] # "idle"})

\* the record _evaluate_params appended for an iteration, if any
RecordsOf(i) == {k \in 1..Len(iteration_results) : iteration_results[k].iteration = i}

\* C22: in parallel mode at most max_workers points are asked and not yet
\* told, every asked point is told exactly once, with the result of its
\* evaluation or with 0.0 when that failed, and no two calls of tell run at
\* the same time.
C22_AskTellBatches ==
    max_workers > 1 =>
        /\ asked - told <= max_workers
        /\ asked - told = Outstanding
        /\ Cardinality(tell_log) = told
        /\ \A r1, r2 \in tell_log : r1.iteration = r2.iteration => r1 = r2
        /\ \A r \in tell_log :
               IF RecordsOf(r.iteration) = {} THEN r.y = 0
               ELSE \A k \in RecordsOf(r.iteration) :
                       r.y = - iteration_results[k].qa_score
        /\ Cardinality(tellers) <= 1
        /\ mpc = "done" => asked = told

\* one future of a batch is being told while the other has returned and waits
C22_Witness ==
    /\ max_workers > 1
    /\ \E t, u \in PoolThreads :
          /\ tpc[t] = "telling"
          /\ tpc[u] = "returned"
          /\ task[u].y = 0
          /\ task[t].y < 0
    /\ told >= 1


Interrupted == mpc \in {"shutdown", "raised"}

\* C23: after an interrupt arrives during optimize() no new point is asked,
\* and every evaluation in flight at that moment has run to completion, its
\* child process waited for, when optimize() exits.
C23_InterruptLetsEvaluationsFinish ==
    /\ [][Interrupted => asked' = asked]_vars
    /\ [](mpc = "raised" => \A t \in Threads : tpc[t] \in {"idle", "returned"})


\* C24: optimize() performs at most n_iterations evaluations, in sequential
\* and in parallel mode, also when evaluations fail: a failed evaluation
\* counts toward the iteration budget.
C24_AtMostNIterationsEvaluations == n_evals <= NIterations

(***************************************************************************)
(* Claims about the preparation of an evaluation                           *)
(***************************************************************************)
\* C25: under parallel execution the configuration file written for
\* iteration i holds exactly the parameter values of the combination
\* evaluated in iteration i.
C25_ConfigFileHoldsOwnParameters ==
    \A t \in PoolThreads :
        prep_pc[t] = "done" =>
            /\ config_files[t].tract_count = params_of[t]
            /\ config_files[t].tracking_parameters = params_of[t]

\* C29: _sample_subject_for_iteration(i) returns the same subject for the
\* same iteration number and pool in every run, sequential or concurrent:
\* the one random.choice yields right after random.seed(42 + i).
C29_SubjectDependsOnIterationOnly ==
    \A t \in PoolThreads :
        prep_pc[t] \in {"update", "dump", "done"} =>
            sampled[t] = Choice(AllSubjects, SeedRandom(DefaultSeed + t))

(***************************************************************************)
(* Claims about apply_param_choice_to_config                               *)
(***************************************************************************)
\* the position a chosen parameter is to be stored at
TargetOf(c) ==
    IF mapping[c.key] = <<>> THEN <<c.key>>
    ELSE LET s == mapping[c.key] IN
         IF Len(s) = 1 THEN s ELSE <<s[1], s[3]>>

Targets == {TargetOf(choice[k]) : k \in 1..Len(choice)}

\* the targets lie apart from one another and no path leads through a value
WellFormedChoice ==
    /\ \A j, k \in 1..Len(choice) :
          j # k => ~ IsPrefixOf(TargetOf(choice[j]), TargetOf(choice[k]))
    /\ \A k \in 1..Len(choice) :
          LET at == TargetOf(choice[k]) IN
          Len(at) = 2 => base_config[<<at[1]>>] \in {"missing", "dict"}

RECURSIVE LoadInOrder(_, _)
LoadInOrder(acc, order) ==
    IF order = <<>> THEN acc
    ELSE LoadInOrder(AddCandidates(acc, Head(order), wave_files[Head(order)].candidates),
                     Tail(order))

\* candidates, averages and wave counts of the ranked list, in its order
Summary(list) ==
    [k \in 1..Len(list) |->
        [key |-> list[k].key, average_score |-> list[k].average_score,
         waves_considered |-> list[k].waves_considered]]

RankedInOrder(order) ==
    LET acc == LoadInOrder([scores |-> <<>>, details |-> <<>>], order) IN
    SortByAverage([k \in 1..Len(acc.scores) |->
                      [key |-> acc.scores[k].key,
                       average_score |-> Average(acc.scores[k].vals),
                       waves_considered |-> Len(acc.scores[k].vals),
                       per_wave |-> acc.details[k].vals]], <<>>)

WaveOrders == {o \in [1..NWaves -> 1..NWaves] : \A i, j \in 1..NWaves : o[i] = o[j] => i = j}

\* C27: for every permutation of the wave list the aggregation yields the
\* same ranked list: same candidates, averages and wave counts in the same
\* order.
C27_RankedIgnoresWaveOrder ==
    apc = "done" =>
        \A o \in WaveOrders : Summary(RankedInOrder(o)) = Summary(ranked)


(***************************************************************************)
(* Claims about the selection loop of run_wave_pipeline                    *)
(***************************************************************************)
\* C28: when at least one combination of the wave completed with status ok,
\* the selection loop leaves best set to one of the successful combinations.
C28_SomeSuccessfulCombinationIsSelected ==
    (wpc \in {"step03", "done"} /\ optimized_csvs # <<>>) =>
        \E k \in 1..Len(optimized_csvs) : best = optimized_csvs[k].cfg


(***************************************************************************)
(* Claims about pruning the combinations that were not selected            *)
(***************************************************************************)
\* the directory of the best combination is there and every other directory
\* holding a 02_optimization is gone
OnlyBestKept ==
    /\ combo_dirs[best] = "present"
    /\ \A i \in Tasks : (i # best /\ HasStep02(i)) => combo_dirs[i] = "deleted"

\* C30 as stated: when pruning is requested, once a wave has selected its
\* best combination and ended, the directory of the selected combination is
\* present and every other combination directory that completed its
\* optimization step has been removed.
C30_PrunedAfterSelection ==
    (prune_nonbest /\ wpc = "done" /\ best # 0) => OnlyBestKept

\* C30: when pruning is requested, once a wave has selected its best
\* combination and ended with Step 03 succeeding, the directory of the
\* selected combination is present and every other combination directory
\* that completed its optimization step has been removed.
C30_PrunedAfterStep03 ==
    (prune_nonbest /\ wpc = "done" /\ best # 0 /\ rc3 = 0) => OnlyBestKept

\* a pruned wave that removed the directory of a combination it did not select
C30_Witness ==
    /\ prune_nonbest /\ wpc = "done" /\ best # 0 /\ rc3 = 0
    /\ combo_dirs[best] = "present"
    /\ \E i \in Tasks : i # best /\ combo_dirs[i] = "deleted"

====
